---- MODULE Spec2Model ----
(***************************************************************************)
(* The view-compilation and aggregation engine of the metrics SDK:         *)
(* sdk/metric/internal/viewstate (Compiler, pipelines, accumulators) and   *)
(* sdk/metric/internal/asyncstate (callbacks, observers).                  *)
(*                                                                         *)
(* Storage cells are heap objects: `cells` is the heap, a pipeline's data  *)
(* and prior maps hold pointers into it, and so does every accumulator's   *)
(* output field, so that a cell dropped from a map while an accumulator    *)
(* still points at it is represented as the code has it.                   *)
(*                                                                         *)
(* The number kind is int64 throughout (buildView runs the same generic    *)
(* code for float64), and the Histogram kernel is not modelled.            *)
(***************************************************************************)
EXTENDS Integers, Sequences, FiniteSets, TLC

VARIABLES
    readers,    \* Compiler.readers: each reader's Defaults(), by position
    views,      \* Compiler.views
    names,      \* Compiler.names: per reader, the emitted names in use
    pipelines,  \* every pipeline built by buildView, by identity
    cells,      \* the heap of Storage cells
    insts,      \* the instruments: descriptor, compiled form, async reader state
    saccs,      \* the synchronous accumulators handed out by NewAccumulator
    ctxs,       \* the callback contexts made by Callback.Run so far
    live,       \* the contexts whose Run has not returned
    phase,      \* per reader, the position of its collection cycle
    ncollect,   \* per reader, the number of collections done (the Sequence)
    out,        \* the output slice filled by the last Collect
    handled,    \* the errors given to otel.Handle
    panicked,   \* a nil dereference happened
    clock,      \* the time source of the LastValue kernel
    nupdates,   \* the number of measurements made so far (bounds the model)
    threads,    \* the operations in progress, when they run step by step
    locks       \* the mutexes that are held, each with the thread holding it

vars == <<readers, views, names, pipelines, cells, insts, saccs, ctxs, live,
          phase, ncollect, out, handled, panicked, clock, nupdates, threads,
          locks>>

----------------------------------------------------------------------------
(* Bounds of the model. *)

MaxAccs == 2        \* synchronous accumulators handed out
MaxUpdates == 2     \* measurements (Update / Observe calls)
MaxCollects == 3    \* collections per reader
MaxInsts == 2       \* instruments compiled
MaxThreads == 2     \* operations in progress at once

----------------------------------------------------------------------------
(* Descriptors, temporalities, aggregation kinds. *)

Delta == "Delta"
Cumulative == "Cumulative"

SumKind == "Sum"
LastValueKind == "LastValue"
DropKind == "Drop"
UndefinedKind == "Undefined"

Counter == "Counter"
CounterObserver == "CounterObserver"
GaugeObserver == "GaugeObserver"
IKinds == {Counter, CounterObserver, GaugeObserver}

Synchronous(ikind) == ikind \in {"Counter", "UpDownCounter", "Histogram"}

HasTemporality(ikind) == ikind \notin {"GaugeObserver", "Gauge"}

Monotonic(ikind) == ikind \in {"Counter", "CounterObserver"}

ErrDuplicate == "duplicate view name registered"
ErrOutside == "async instrument used outside of callback"
ErrUndeclared == "async instrument not declared for use in callback"
ErrRange == "range test failed"

----------------------------------------------------------------------------
(* Attribute sets.  A KeyValue is a <<key, value>> pair, kvs a sequence of *)
(* them, a Set the set of pairs with the last value of each key.           *)

NewSet(kvs) ==
    {kvs[i] : i \in {j \in DOMAIN kvs :
                        \A l \in DOMAIN kvs : l > j => kvs[l][1] # kvs[j][1]}}

NoFilter == [on |-> FALSE, keys |-> {}]
KeyFilter(ks) == [on |-> TRUE, keys |-> ks]

NewSetWithFiltered(kvs, filter) ==
    IF filter.on THEN {kv \in NewSet(kvs) : kv[1] \in filter.keys}
    ELSE NewSet(kvs)

----------------------------------------------------------------------------
(* Aggregator kernels (Methods), over Storage = [v, ts].  Sum uses v only; *)
(* LastValue holds the value and the time it was set, ts = 0 being unset.  *)

InitStorage == [v |-> 0, ts |-> 0]

MUpdate(agg, s, value, now) ==
    IF agg = LastValueKind THEN [v |-> value, ts |-> now]
    ELSE [s EXCEPT !.v = @ + value]

\* Merge(src, dst): the new dst.
MMerge(agg, src, dst) ==
    IF agg = LastValueKind THEN (IF src.ts > dst.ts THEN src ELSE dst)
    ELSE [dst EXCEPT !.v = @ + src.v]

\* SubtractSwap(new, prior): the new prior.
MSubtractSwap(agg, new, prior) ==
    IF agg = LastValueKind THEN new
    ELSE [prior EXCEPT !.v = new.v - @]

HasData(agg, s) ==
    IF agg = LastValueKind THEN s.ts # 0 ELSE s.v # 0

\* The kernel stamps a LastValue with the time of the update.
Tick(agg, now) == IF agg = LastValueKind THEN now + 1 ELSE now

----------------------------------------------------------------------------
(* Maps (Go maps) are functions with a finite domain. *)

EmptyMap == [x \in {} |-> 0]

MapPut(m, k, val) == [x \in DOMAIN m \cup {k} |-> IF x = k THEN val ELSE m[x]]

MapDelete(m, k) == [x \in DOMAIN m \ {k} |-> m[x]]

RECURSIVE SetToSeq(_)
SetToSeq(S) ==
    IF S = {} THEN <<>>
    ELSE LET x == CHOOSE y \in S : TRUE IN <<x>> \o SetToSeq(S \ {x})

Range(f) == {f[x] : x \in DOMAIN f}

ReaderIds == DOMAIN readers

----------------------------------------------------------------------------
(* Compiler.Compile *)

aggregatorConfigFor(desc, defaults) == defaults[desc.ikind].agg

viewDescriptor(instrument, v) ==
    [instrument EXCEPT !.name = IF v.hasName THEN v.name ELSE @]

\* The view loop's switch on view.Aggregation().
ViewKind(view, instrument, r) ==
    IF view.agg \in {SumKind, LastValueKind} THEN view.agg
    ELSE aggregatorConfigFor(instrument, readers[r])

Matches(instrument) ==
    SelectSeq(views, LAMBDA view : instrument.name \in view.matches)

\* configs[readerIdx] with the default behaviour appended whether or not a
\* view matched.
ConfigsForAlwaysDefault(instrument, r) ==
    LET matches == Matches(instrument)
        kept == SelectSeq(matches,
                          LAMBDA view : ViewKind(view, instrument, r) # DropKind)
        fromViews == [i \in 1..Len(kept) |->
                        [desc |-> viewDescriptor(instrument, kept[i]),
                         keys |-> kept[i].keys,
                         kind |-> ViewKind(kept[i], instrument, r),
                         reader |-> r]]
        kind == aggregatorConfigFor(instrument, readers[r])
    IN  IF kind # DropKind
        THEN fromViews \o <<[desc |-> instrument, keys |-> NoFilter,
                             kind |-> kind, reader |-> r]>>
        ELSE fromViews

\* configs[readerIdx] of Compile.
ConfigsFor(instrument, r) ==
    LET matches == Matches(instrument)
        kept == SelectSeq(matches,
                          LAMBDA view : ViewKind(view, instrument, r) # DropKind)
        fromViews == [i \in 1..Len(kept) |->
                        [desc |-> viewDescriptor(instrument, kept[i]),
                         keys |-> kept[i].keys,
                         kind |-> ViewKind(kept[i], instrument, r),
                         reader |-> r]]
        kind == aggregatorConfigFor(instrument, readers[r])
    IN  IF Len(matches) = 0 /\ kind # DropKind
        THEN fromViews \o <<[desc |-> instrument, keys |-> NoFilter,
                             kind |-> kind, reader |-> r]>>
        ELSE fromViews

\* Accepted without the test of the reader's name set.
AcceptedAll(configs, used) == configs

\* The configs of one reader that pass the duplicate-name test, in order.
RECURSIVE Accepted(_, _)
Accepted(configs, used) ==
    IF configs = <<>> THEN <<>>
    ELSE LET config == Head(configs) IN
         IF config.desc.name \in used
         THEN Accepted(Tail(configs), used)
         ELSE <<config>> \o Accepted(Tail(configs), used \cup {config.desc.name})

\* A pipeline is [proc, desc, agg, keys, reader, data, prior, sent]: proc
\* names the process type, agg the kernel (Methods) it was instantiated
\* with.  sent is a history field that the code does not have, kept by the
\* cumulative-to-delta Collect: per attribute set, the sum of the values
\* emitted so far (total) and of those emitted since the set was last
\* missing from a collection (streak).
TemporalityFor(config) == readers[config.reader][config.desc.ikind].tempo

newSyncView(config) ==
    [proc |-> IF TemporalityFor(config) = Delta
              THEN "statelessSync" ELSE "statefulSync",
     desc |-> config.desc,
     agg |-> IF config.kind = LastValueKind THEN LastValueKind ELSE SumKind,
     keys |-> config.keys,
     reader |-> config.reader,
     data |-> EmptyMap,
     prior |-> EmptyMap,
     sent |-> EmptyMap]

\* newAsyncView with the two process types the other way round.
newAsyncViewSwapped(config) ==
    [proc |-> IF TemporalityFor(config) = Delta
              THEN "statelessAsync" ELSE "statefulAsync",
     desc |-> config.desc,
     agg |-> IF config.kind = LastValueKind THEN LastValueKind ELSE SumKind,
     keys |-> config.keys,
     reader |-> config.reader,
     data |-> EmptyMap,
     prior |-> EmptyMap,
     sent |-> EmptyMap]

newAsyncView(config) ==
    [proc |-> IF TemporalityFor(config) = Delta
              THEN "statefulAsync" ELSE "statelessAsync",
     desc |-> config.desc,
     agg |-> IF config.kind = LastValueKind THEN LastValueKind ELSE SumKind,
     keys |-> config.keys,
     reader |-> config.reader,
     data |-> EmptyMap,
     prior |-> EmptyMap,
     sent |-> EmptyMap]

buildView(config) ==
    IF Synchronous(config.desc.ikind) THEN newSyncView(config)
    ELSE newAsyncView(config)

\* The pipelines Compile builds, reader by reader, in the order built.
RECURSIVE BuiltFrom(_, _)
BuiltFrom(instrument, r) ==
    IF r > Len(readers) THEN <<>>
    ELSE LET acc == Accepted(ConfigsFor(instrument, r), names[r])
         IN  [i \in 1..Len(acc) |-> buildView(acc[i])]
             \o BuiltFrom(instrument, r + 1)

\* compiled[r] as pipeline identities, given where the new pipelines start.
CompiledMap(built, base) ==
    [r \in {built[i].reader : i \in DOMAIN built} |->
        SelectSeq([i \in DOMAIN built |-> base + i],
                  LAMBDA id : built[id - base].reader = r)]

NilInstrument == [tag |-> "nil", p |-> 0, mi |-> EmptyMap]

\* The switch on len(compiled) that ends Compile.
Wrap(compiled) ==
    IF DOMAIN compiled = {} THEN NilInstrument
    ELSE IF Cardinality(DOMAIN compiled) = 1
            /\ \E r \in DOMAIN compiled : Len(compiled[r]) = 1
    THEN [tag |-> "single",
          p |-> compiled[CHOOSE r \in DOMAIN compiled : TRUE][1],
          mi |-> EmptyMap]
    ELSE [tag |-> "multi", p |-> 0, mi |-> compiled]

NewInstrument(desc, compiled) ==
    [desc |-> desc,
     compiled |-> compiled,
     state |-> [r \in ReaderIds |-> EmptyMap]]

\* meter.newAsyncInst: Compile, then NewInstrument (and the same for a
\* synchronous instrument).
Compile(instrument) ==
    /\ ~panicked
    /\ Len(insts) < MaxInsts
    /\ LET built == BuiltFrom(instrument, 1)
           compiled == CompiledMap(built, Len(pipelines))
       IN  /\ pipelines' = pipelines \o built
           /\ names' = [r \in ReaderIds |->
                          names[r] \cup
                          {c.desc.name : c \in Range(ConfigsFor(instrument, r))}]
           /\ handled' = IF \E r \in ReaderIds :
                               Len(Accepted(ConfigsFor(instrument, r), names[r]))
                                  < Len(ConfigsFor(instrument, r))
                         THEN handled \cup {ErrDuplicate} ELSE handled
           /\ insts' = Append(insts, NewInstrument(instrument, Wrap(compiled)))
    /\ UNCHANGED <<threads, locks, readers, views, cells, saccs, ctxs, live, phase, ncollect,
                   out, panicked, clock, nupdates>>

----------------------------------------------------------------------------
(* Storage cells and accumulators.                                         *)
(*                                                                         *)
(* The heap maps a pointer to a cell.  A pointer is <<p, set, n>>: the n-th *)
(* cell alive at once that pipeline p allocated for attribute set `set`.   *)
(* A cell is [st, flushed]: st is the Storage, and flushed is a history    *)
(* field that the code does not have, the sum of the values that           *)
(* Accumulate has merged into the cell since the last Collect of a delta   *)
(* pipeline (since its allocation in a cumulative one).  Cells that no     *)
(* map and no accumulator points at any more are dropped from the heap, as *)
(* the garbage collector does.                                             *)
(*                                                                         *)
(* An accumulator is a sequence of leaves, one per pipeline it feeds: a    *)
(* single syncAccumulator or asyncAccumulator is a sequence of one, a      *)
(* multiAccumulator the sequence of its children.  A leaf is               *)
(* [agg, current, output]; the snapshot field is scratch that Accumulate   *)
(* overwrites before it reads it, so it lives in Accumulate only.          *)

\* new(Storage): a pointer that no live cell has.
NewPointer(cl, p, set) ==
    <<p, set, CHOOSE n \in 1..(Cardinality(DOMAIN cl) + 1) :
                /\ <<p, set, n>> \notin DOMAIN cl
                /\ \A m \in 1..(n - 1) : <<p, set, m>> \in DOMAIN cl>>

\* The cells still pointed at by a map or by an accumulator.
Reachable(pl, sa, ins) ==
    UNION {Range(pl[p].data) \cup Range(pl[p].prior) : p \in DOMAIN pl}
    \cup {sa[a][l].output : <<a, l>> \in
            UNION {{<<a, l>> : l \in DOMAIN sa[a]} : a \in DOMAIN sa}}
    \cup UNION {UNION {UNION {{acc[l].output : l \in DOMAIN acc} :
                            acc \in Range(ins[i].state[r])} :
                      r \in DOMAIN ins[i].state} : i \in DOMAIN ins}

\* The heap without the cells nothing points at.
Sweep(cl, pl, sa, ins) == [c \in DOMAIN cl \cap Reachable(pl, sa, ins) |-> cl[c]]

\* baseMetric.findOutput on a heap h = [pl, cl]: the heap after it.
findOutput(h, p, kvs) ==
    LET set == NewSetWithFiltered(kvs, h.pl[p].keys) IN
    IF set \in DOMAIN h.pl[p].data THEN h
    ELSE [pl |-> [h.pl EXCEPT ![p].data = MapPut(@, set, NewPointer(h.cl, p, set))],
          cl |-> MapPut(h.cl, NewPointer(h.cl, p, set),
                        [st |-> InitStorage, flushed |-> 0])]

\* The cell findOutput returns, read off the heap after it.
OutputOf(h, p, kvs) == h.pl[p].data[NewSetWithFiltered(kvs, h.pl[p].keys)]

\* compiledSyncInstrument.NewAccumulator, compiledAsyncInstrument.NewAccumulator:
\* current is a Storage in the first and a number in the second.
NewLeaf(h, p, kvs) ==
    [agg |-> h.pl[p].agg,
     current |-> IF h.pl[p].proc \in {"statelessSync", "statefulSync"}
                 THEN InitStorage ELSE 0,
     output |-> OutputOf(h, p, kvs)]

\* One NewAccumulator call per pipeline of pids, on the state
\* s = [pl, cl, leaves].
RECURSIVE NewLeaves(_, _, _)
NewLeaves(s, pids, kvs) ==
    IF pids = <<>> THEN s
    ELSE LET h == findOutput(s, Head(pids), kvs)
         IN  NewLeaves([pl |-> h.pl, cl |-> h.cl,
                        leaves |-> Append(s.leaves, NewLeaf(h, Head(pids), kvs))],
                       Tail(pids), kvs)

RECURSIVE Flatten(_)
Flatten(seqs) == IF seqs = <<>> THEN <<>> ELSE Head(seqs) \o Flatten(Tail(seqs))

NilReader == 0

\* The pipelines whose NewAccumulator a compiled instrument calls: a single
\* pipeline ignores the reader, multiInstrument.NewAccumulator takes every
\* list for a nil reader and mi[reader] otherwise.
AccumulatorPipes(compiled, reader) ==
    IF compiled.tag = "single" THEN <<compiled.p>>
    ELSE IF reader = NilReader
    THEN Flatten([i \in 1..Cardinality(DOMAIN compiled.mi) |->
                    compiled.mi[SetToSeq(DOMAIN compiled.mi)[i]]])
    ELSE IF reader \in DOMAIN compiled.mi THEN compiled.mi[reader]
    ELSE <<>>

SyncIds == {i \in DOMAIN insts : Synchronous(insts[i].desc.ikind)}
AsyncIds == {i \in DOMAIN insts : ~Synchronous(insts[i].desc.ikind)}

\* A synchronous instrument binds an attribute list: NewAccumulator(kvs, nil).
NewAccumulator(i, kvs) ==
    /\ ~panicked
    /\ i \in SyncIds
    /\ insts[i].compiled.tag # "nil"
    /\ Len(saccs) < MaxAccs
    /\ LET s == NewLeaves([pl |-> pipelines, cl |-> cells, leaves |-> <<>>],
                          AccumulatorPipes(insts[i].compiled, NilReader), kvs)
       IN  /\ pipelines' = s.pl
           /\ cells' = s.cl
           /\ saccs' = Append(saccs, s.leaves)
    /\ UNCHANGED <<threads, locks, readers, views, names, insts, ctxs, live, phase, ncollect,
                   out, handled, panicked, clock, nupdates>>

\* syncAccumulator.Update on one leaf.
SyncLeafUpdate(leaf, number, now) ==
    [leaf EXCEPT !.current = MUpdate(leaf.agg, @, number, now)]

\* syncAccumulator.Update, multiAccumulator.Update.
Update(a, number) ==
    /\ ~panicked
    /\ a \in DOMAIN saccs
    /\ nupdates < MaxUpdates
    /\ nupdates' = nupdates + 1
    /\ clock' = IF \E l \in DOMAIN saccs[a] : saccs[a][l].agg = LastValueKind
                THEN Tick(LastValueKind, clock) ELSE clock
    /\ saccs' = [saccs EXCEPT ![a] =
                    [l \in DOMAIN @ |-> SyncLeafUpdate(@[l], number, clock + 1)]]
    /\ UNCHANGED <<threads, locks, readers, views, names, pipelines, cells, insts, ctxs, live,
                   phase, ncollect, out, handled, panicked>>

\* Merge(&snapshot, output) of Accumulate: the cell after it.
MergeIntoOutput(agg, snapshot, cell) ==
    [cell EXCEPT !.st = MMerge(agg, snapshot, @),
                 !.flushed = @ + snapshot.v]

\* syncAccumulator.Accumulate on the leaves of one accumulator, in order:
\* SynchronizedMove(current -> snapshot), then Merge(snapshot -> output).
RECURSIVE SyncAccumulateCells(_, _)
SyncAccumulateCells(cl, leaves) ==
    IF leaves = <<>> THEN cl
    ELSE LET leaf == Head(leaves)
             snapshot == leaf.current
         IN  SyncAccumulateCells(
                 [cl EXCEPT ![leaf.output] =
                     MergeIntoOutput(leaf.agg, snapshot, @)],
                 Tail(leaves))

\* syncAccumulator.Accumulate, multiAccumulator.Accumulate.
Accumulate(a) ==
    /\ ~panicked
    /\ a \in DOMAIN saccs
    /\ cells' = SyncAccumulateCells(cells, saccs[a])
    /\ saccs' = [saccs EXCEPT ![a] =
                    [l \in DOMAIN @ |-> [@[l] EXCEPT !.current = InitStorage]]]
    /\ UNCHANGED <<threads, locks, readers, views, names, pipelines, insts, ctxs, live, phase,
                   ncollect, out, handled, panicked, clock, nupdates>>

----------------------------------------------------------------------------
(* Asynchronous instruments: callbacks, observers, AccumulateFor.          *)
(*                                                                         *)
(* A Callback is the set of instruments it declares.  The context that     *)
(* Run hands to the callback function is [reader, cb]; it is a value, and  *)
(* stays one after Run has returned.  insts[i].state[r] is the store of    *)
(* readerState: attribute set -> accumulator.  The observer of instrument  *)
(* i is NewObserver(insts[i]), so its inst field is never nil.             *)

NoCtx == [reader |-> NilReader, cb |-> {}]

\* Callback.Run calls the function; the function's Observe calls are the
\* steps that follow, until RunReturn.
RunBegin(cb, reader) ==
    /\ ~panicked
    /\ reader \in ReaderIds
    /\ cb # {} /\ cb \subseteq AsyncIds
    /\ phase[reader] = "idle"
    /\ ncollect[reader] < MaxCollects
    /\ phase' = [phase EXCEPT ![reader] = "callback"]
    /\ ctxs' = ctxs \cup {[reader |-> reader, cb |-> cb]}
    /\ live' = live \cup {[reader |-> reader, cb |-> cb]}
    /\ UNCHANGED <<threads, locks, readers, views, names, pipelines, cells, insts, saccs,
                   ncollect, out, handled, panicked, clock, nupdates>>

RunReturn(reader) ==
    /\ ~panicked
    /\ reader \in ReaderIds
    /\ phase[reader] = "callback"
    /\ phase' = [phase EXCEPT ![reader] = "ran"]
    /\ live' = {ctx \in live : ctx.reader # reader}
    /\ UNCHANGED <<threads, locks, readers, views, names, pipelines, cells, insts, saccs, ctxs,
                   ncollect, out, handled, panicked, clock, nupdates>>

\* aggregator.RangeTest: a monotonic instrument takes no negative value.
RangeTestFails(value, desc) == Monotonic(desc.ikind) /\ value < 0

\* asyncAccumulator.Update adding the number to current.
AsyncLeafUpdateAdding(leaf, number) == [leaf EXCEPT !.current = @ + number]

\* asyncAccumulator.Update
AsyncLeafUpdate(leaf, number) == [leaf EXCEPT !.current = number]

\* Instrument.get followed by Update(value): the accumulator of (reader,
\* attrs) is looked up in the store, or made by
\* inst.compiled.NewAccumulator(aset, reader) and stored.
GetAndUpdate(i, reader, value, kvs) ==
    LET aset == NewSet(kvs)
        store == insts[i].state[reader]
    IN  IF aset \in DOMAIN store
        THEN /\ insts' = [insts EXCEPT ![i].state[reader][aset] =
                            [l \in DOMAIN @ |-> AsyncLeafUpdate(@[l], value)]]
             /\ UNCHANGED <<pipelines, cells, panicked>>
        ELSE IF insts[i].compiled.tag = "nil"
        THEN /\ panicked' = TRUE
             /\ UNCHANGED <<pipelines, cells, insts>>
        ELSE LET s == NewLeaves([pl |-> pipelines, cl |-> cells, leaves |-> <<>>],
                                AccumulatorPipes(insts[i].compiled, reader),
                                SetToSeq(aset))
             IN  /\ pipelines' = s.pl
                 /\ cells' = s.cl
                 /\ insts' = [insts EXCEPT ![i].state[reader] =
                                MapPut(@, aset,
                                    [l \in DOMAIN s.leaves |->
                                        AsyncLeafUpdate(s.leaves[l], value)])]
                 /\ UNCHANGED panicked

\* Observe with no return after the error for a missing callback scope.
ObserveFallingThrough(i, ctx, value, kvs) ==
    /\ ~panicked
    /\ i \in AsyncIds
    /\ nupdates < MaxUpdates
    /\ handled' = IF ctx = NoCtx THEN handled \cup {ErrOutside} ELSE handled
    /\ IF ctx = NoCtx
       THEN \E reader \in ReaderIds : GetAndUpdate(i, reader, value, kvs)
       ELSE GetAndUpdate(i, ctx.reader, value, kvs)
    /\ nupdates' = nupdates + 1
    /\ UNCHANGED <<threads, locks, readers, views, names, saccs, ctxs, live, phase, ncollect,
                   out, clock>>

\* Observer.Observe.  The test of the callback's declared set reports the
\* error and goes on: there is no return after it.
Observe(i, ctx, value, kvs) ==
    /\ ~panicked
    /\ i \in AsyncIds
    /\ nupdates < MaxUpdates
    /\ IF ctx = NoCtx
       THEN /\ handled' = handled \cup {ErrOutside}
            /\ UNCHANGED <<pipelines, cells, insts, panicked>>
       ELSE LET reported == IF i \notin ctx.cb
                            THEN handled \cup {ErrUndeclared} ELSE handled
            IN  IF RangeTestFails(value, insts[i].desc)
                THEN /\ handled' = reported \cup {ErrRange}
                     /\ UNCHANGED <<pipelines, cells, insts, panicked>>
                ELSE /\ handled' = reported
                     /\ GetAndUpdate(i, ctx.reader, value, kvs)
    /\ nupdates' = nupdates + 1
    /\ UNCHANGED <<threads, locks, readers, views, names, saccs, ctxs, live, phase, ncollect,
                   out, clock>>

\* asyncAccumulator.Accumulate on the leaves of one accumulator, on the
\* state s = [cl, now]: Reset(snapshot); Update(snapshot, current);
\* Merge(snapshot -> output).
RECURSIVE AsyncAccumulate(_, _)
AsyncAccumulate(s, leaves) ==
    IF leaves = <<>> THEN s
    ELSE LET leaf == Head(leaves)
             snapshot == MUpdate(leaf.agg, InitStorage, leaf.current, s.now + 1)
         IN  AsyncAccumulate(
                 [cl |-> [s.cl EXCEPT ![leaf.output] =
                            MergeIntoOutput(leaf.agg, snapshot, @)],
                  now |-> Tick(leaf.agg, s.now)],
                 Tail(leaves))

\* The loop of Instrument.AccumulateFor over rs.store, for the instruments
\* named in left (pairs <<instrument, attribute set>>): a Go map is ranged
\* over in any order, so this is the set of the states it can end in.
RECURSIVE AccumulateStore(_, _, _)
AccumulateStore(s, reader, left) ==
    IF left = {} THEN {s}
    ELSE UNION {AccumulateStore(
                    AsyncAccumulate(s, insts[h[1]].state[reader][h[2]]),
                    reader, left \ {h}) : h \in left}

\* The entries of the stores of a reader, as <<instrument, attribute set>>.
StoreEntries(reader) ==
    UNION {{<<i, aset>> : aset \in DOMAIN insts[i].state[reader]} : i \in AsyncIds}

\* Instrument.AccumulateFor(reader) on every asynchronous instrument, as
\* the SDK calls it once the callbacks of a collection have returned.  The
\* collection starts with an empty output slice.
AccumulateFor(reader) ==
    /\ ~panicked
    /\ reader \in ReaderIds
    /\ AsyncIds # {}
    /\ phase[reader] \in {"idle", "ran"}
    /\ ncollect[reader] < MaxCollects
    /\ insts' = [i \in DOMAIN insts |->
                    IF i \in AsyncIds
                    THEN [insts[i] EXCEPT !.state[reader] = EmptyMap]
                    ELSE insts[i]]
    /\ \E s \in AccumulateStore([cl |-> cells, now |-> clock], reader,
                    StoreEntries(reader)) :
         /\ cells' = Sweep(s.cl, pipelines, saccs, insts')
         /\ clock' = s.now
    /\ out' = [reader |-> reader, insts |-> <<>>]
    /\ phase' = [phase EXCEPT ![reader] = "flushed"]
    /\ UNCHANGED <<threads, locks, readers, views, names, pipelines, saccs, ctxs, live,
                   ncollect, handled, panicked, nupdates>>

----------------------------------------------------------------------------
(* Collect.  The state threaded through a collection is s = [pl, cl, out]: *)
(* the pipelines, the heap and the output slice.  A reader.Instrument is   *)
(* [desc, temporality, series, pipe], where series maps each attribute set *)
(* to its Series [value, start, end] (the order of the Series slice is the *)
(* map's iteration order and is not modelled) and pipe records the         *)
(* pipeline that appended the record.                                      *)

Series(storage, start, end) == [value |-> storage, start |-> start, end |-> end]

\* statefulSyncProcess.Collect with the delta path's Reset of each emitted
\* cell added to it.
statefulSyncCollectResetting(s, p, seq) ==
    LET data == s.pl[p].data IN
    [s EXCEPT !.cl = [c \in DOMAIN s.cl |->
                        IF c \in Range(data)
                        THEN [s.cl[c] EXCEPT !.st = InitStorage] ELSE s.cl[c]],
              !.out = Append(@,
        [desc |-> s.pl[p].desc, temporality |-> Cumulative, pipe |-> p,
         series |-> [set \in DOMAIN data |->
                        Series(s.cl[data[set]].st, seq.Last, seq.Now)]])]

\* statefulSyncProcess.Collect with Start: seq.Start, as the asynchronous
\* processes have it.
statefulSyncCollectFromStart(s, p, seq) ==
    LET data == s.pl[p].data IN
    [s EXCEPT !.out = Append(@,
        [desc |-> s.pl[p].desc, temporality |-> Cumulative, pipe |-> p,
         series |-> [set \in DOMAIN data |->
                        Series(s.cl[data[set]].st, seq.Start, seq.Now)]])]

\* statefulSyncProcess.Collect
statefulSyncCollect(s, p, seq) ==
    LET data == s.pl[p].data IN
    [s EXCEPT !.out = Append(@,
        [desc |-> s.pl[p].desc, temporality |-> Cumulative, pipe |-> p,
         series |-> [set \in DOMAIN data |->
                        Series(s.cl[data[set]].st, seq.Last, seq.Now)]])]

\* ns := newStorage(); Merge(ns, storage); Reset(storage): the two
\* storages afterwards.
CopyAndReset(agg, storage) ==
    LET ns == InitStorage
        merged == MMerge(agg, ns, storage)    \* the new storage; ns is as it was
    IN  [ns |-> ns, storage |-> InitStorage]  \* Reset(storage)

\* statelessSyncProcess.Collect without the delete of a cell with no data.
statelessSyncCollectKeeping(s, p, seq) ==
    LET data == s.pl[p].data
        agg == s.pl[p].agg
        kept == {set \in DOMAIN data : HasData(agg, s.cl[data[set]].st)}
        emitted == {data[set] : set \in kept}
    IN  [pl |-> s.pl,
         cl |-> [c \in DOMAIN s.cl |->
                    LET cell == s.cl[c]
                        reset == IF c \in emitted
                                 THEN [cell EXCEPT !.st =
                                          CopyAndReset(agg, cell.st).storage]
                                 ELSE cell
                    IN  IF c[1] = p THEN [reset EXCEPT !.flushed = 0]
                        ELSE reset],
         out |-> Append(s.out,
            [desc |-> s.pl[p].desc, temporality |-> Delta, pipe |-> p,
             series |-> [set \in kept |->
                            Series(CopyAndReset(agg, s.cl[data[set]].st).ns,
                                   seq.Last, seq.Now)]])]

\* statelessSyncProcess.Collect
statelessSyncCollect(s, p, seq) ==
    LET data == s.pl[p].data
        agg == s.pl[p].agg
        kept == {set \in DOMAIN data : HasData(agg, s.cl[data[set]].st)}
        emitted == {data[set] : set \in kept}
    IN  [pl |-> [s.pl EXCEPT ![p].data = [set \in kept |-> data[set]]],
         cl |-> [c \in DOMAIN s.cl |->
                    LET cell == s.cl[c]
                        reset == IF c \in emitted
                                 THEN [cell EXCEPT !.st =
                                          CopyAndReset(agg, cell.st).storage]
                                 ELSE cell
                    IN  IF c[1] = p THEN [reset EXCEPT !.flushed = 0]
                        ELSE reset],
         out |-> Append(s.out,
            [desc |-> s.pl[p].desc, temporality |-> Delta, pipe |-> p,
             series |-> [set \in kept |->
                            Series(CopyAndReset(agg, s.cl[data[set]].st).ns,
                                   seq.Last, seq.Now)]])]

\* statelessAsyncProcess.Collect without the new map that ends it.
statelessAsyncCollectKeeping(s, p, seq) ==
    LET data == s.pl[p].data IN
    [pl |-> s.pl,
     cl |-> s.cl,
     out |-> Append(s.out,
        [desc |-> s.pl[p].desc, temporality |-> Cumulative, pipe |-> p,
         series |-> [set \in DOMAIN data |->
                        Series(s.cl[data[set]].st, seq.Start, seq.Now)]])]

\* statelessAsyncProcess.Collect
statelessAsyncCollect(s, p, seq) ==
    LET data == s.pl[p].data IN
    [pl |-> [s.pl EXCEPT ![p].data = EmptyMap],
     cl |-> s.cl,
     out |-> Append(s.out,
        [desc |-> s.pl[p].desc, temporality |-> Cumulative, pipe |-> p,
         series |-> [set \in DOMAIN data |->
                        Series(s.cl[data[set]].st, seq.Start, seq.Now)]])]

\* The loop body with the new value emitted for every instrument kind.
DifferenceEmitsNew(agg, ikind, storage, pval) ==
    LET diff == MSubtractSwap(agg, storage, pval)
    IN  [pval |-> diff, emit |-> HasData(agg, diff), value |-> storage]

\* The loop body without the test that skips a difference with no data.
DifferenceAlwaysEmits(agg, ikind, storage, pval) ==
    LET diff == MSubtractSwap(agg, storage, pval)
    IN  [pval |-> diff,
         emit |-> TRUE,
         value |-> IF HasTemporality(ikind) THEN diff ELSE storage]

\* The body of the loop of statefulAsyncProcess.Collect for one set that
\* has a prior: the prior cell's storage after SubtractSwap, whether a
\* series is appended, and the storage it carries.
Difference(agg, ikind, storage, pval) ==
    LET diff == MSubtractSwap(agg, storage, pval)
    IN  [pval |-> diff,
         emit |-> HasData(agg, diff),
         value |-> IF HasTemporality(ikind) THEN diff ELSE storage]

\* statefulAsyncProcess.Collect with SubtractSwap writing the difference
\* into the storage of the data map instead of the old prior.
statefulAsyncCollectIntoStorage(s, p, seq) ==
    LET data == s.pl[p].data
        prior == s.pl[p].prior
        agg == s.pl[p].agg
        ikind == s.pl[p].desc.ikind
        both == DOMAIN data \cap DOMAIN prior
        D(set) == Difference(agg, ikind, s.cl[data[set]].st, s.cl[prior[set]].st)
        emitting == {set \in DOMAIN data : set \in both => D(set).emit}
        e(set) == IF set \notin emitting THEN 0
                  ELSE IF set \in both THEN D(set).value.v
                  ELSE s.cl[data[set]].st.v
        sent == s.pl[p].sent
        was(set) == IF set \in DOMAIN sent THEN sent[set]
                    ELSE [total |-> 0, streak |-> 0]
    IN  [pl |-> [s.pl EXCEPT ![p].prior = data, ![p].data = EmptyMap,
                             ![p].sent =
                                [set \in DOMAIN sent \cup DOMAIN data |->
                                    IF set \in DOMAIN data
                                    THEN [total |-> was(set).total + e(set),
                                          streak |-> was(set).streak + e(set)]
                                    ELSE [total |-> was(set).total,
                                          streak |-> 0]]],
         cl |-> [c \in DOMAIN s.cl |->
                    IF \E set \in both : data[set] = c
                    THEN [s.cl[c] EXCEPT !.st =
                            D(CHOOSE set \in both : data[set] = c).pval]
                    ELSE s.cl[c]],
         out |-> Append(s.out,
            [desc |-> s.pl[p].desc, temporality |-> Delta, pipe |-> p,
             series |-> [set \in emitting |->
                            Series(IF set \in both THEN D(set).value
                                   ELSE s.cl[data[set]].st,
                                   seq.Start, seq.Now)]])]

\* statefulAsyncProcess.Collect
statefulAsyncCollect(s, p, seq) ==
    LET data == s.pl[p].data
        prior == s.pl[p].prior
        agg == s.pl[p].agg
        ikind == s.pl[p].desc.ikind
        both == DOMAIN data \cap DOMAIN prior
        D(set) == Difference(agg, ikind, s.cl[data[set]].st, s.cl[prior[set]].st)
        emitting == {set \in DOMAIN data : set \in both => D(set).emit}
        e(set) == IF set \notin emitting THEN 0
                  ELSE IF set \in both THEN D(set).value.v
                  ELSE s.cl[data[set]].st.v
        sent == s.pl[p].sent
        was(set) == IF set \in DOMAIN sent THEN sent[set]
                    ELSE [total |-> 0, streak |-> 0]
    IN  [pl |-> [s.pl EXCEPT ![p].prior = data, ![p].data = EmptyMap,
                             ![p].sent =
                                [set \in DOMAIN sent \cup DOMAIN data |->
                                    IF set \in DOMAIN data
                                    THEN [total |-> was(set).total + e(set),
                                          streak |-> was(set).streak + e(set)]
                                    ELSE [total |-> was(set).total,
                                          streak |-> 0]]],
         cl |-> [c \in DOMAIN s.cl |->
                    IF \E set \in both : prior[set] = c
                    THEN [s.cl[c] EXCEPT !.st =
                            D(CHOOSE set \in both : prior[set] = c).pval]
                    ELSE s.cl[c]],
         out |-> Append(s.out,
            [desc |-> s.pl[p].desc, temporality |-> Delta, pipe |-> p,
             series |-> [set \in emitting |->
                            Series(IF set \in both THEN D(set).value
                                   ELSE s.cl[data[set]].st,
                                   seq.Start, seq.Now)]])]

\* The Collect method of pipeline p.
PipelineCollect(s, p, seq) ==
    CASE s.pl[p].proc = "statefulSync" -> statefulSyncCollect(s, p, seq)
      [] s.pl[p].proc = "statelessSync" -> statelessSyncCollect(s, p, seq)
      [] s.pl[p].proc = "statelessAsync" -> statelessAsyncCollect(s, p, seq)
      [] s.pl[p].proc = "statefulAsync" -> statefulAsyncCollect(s, p, seq)

\* The pipelines whose Collect a compiled instrument calls for a reader: a
\* single pipeline ignores the reader argument, multiInstrument.Collect
\* ranges over mi[reader].
CollectPipes(compiled, reader) ==
    IF compiled.tag = "single" THEN <<compiled.p>>
    ELSE IF reader \in DOMAIN compiled.mi THEN compiled.mi[reader]
    ELSE <<>>

RECURSIVE CollectEach(_, _, _)
CollectEach(s, pids, seq) ==
    IF pids = <<>> THEN s
    ELSE CollectEach(PipelineCollect(s, Head(pids), seq), Tail(pids), seq)

\* One collection of a reader: Collect(reader, sequence, &output) on every
\* instrument, in order.
RECURSIVE CollectAll(_, _, _, _)
CollectAll(s, i, reader, seq) ==
    IF i > Len(insts) THEN s
    ELSE CollectAll(CollectEach(s, CollectPipes(insts[i].compiled, reader), seq),
                    i + 1, reader, seq)

Sequence(reader) ==
    [Start |-> 0, Last |-> ncollect[reader], Now |-> ncollect[reader] + 1]

Collect(reader) ==
    /\ ~panicked
    /\ reader \in ReaderIds
    /\ insts # <<>>
    /\ ncollect[reader] < MaxCollects
    /\ \/ phase[reader] = "flushed"
       \/ phase[reader] = "idle" /\ AsyncIds = {}
    /\ LET s == CollectAll([pl |-> pipelines, cl |-> cells, out |-> <<>>],
                           1, reader, Sequence(reader))
       IN  /\ pipelines' = s.pl
           /\ cells' = Sweep(s.cl, s.pl, saccs, insts)
           /\ out' = [reader |-> reader, insts |-> s.out]
    /\ ncollect' = [ncollect EXCEPT ![reader] = @ + 1]
    /\ phase' = [phase EXCEPT ![reader] = "idle"]
    /\ UNCHANGED <<threads, locks, readers, views, names, insts, saccs, ctxs, live, handled,
                   panicked, clock, nupdates>>

----------------------------------------------------------------------------
(* Inputs. *)

StandardAggregation(ikind) ==
    IF ikind = GaugeObserver THEN LastValueKind ELSE SumKind

DeltaReader == [k \in IKinds |-> [agg |-> StandardAggregation(k), tempo |-> Delta]]

CumulativeReader ==
    [k \in IKinds |-> [agg |-> StandardAggregation(k), tempo |-> Cumulative]]

DropReader == [k \in IKinds |-> [agg |-> DropKind, tempo |-> Cumulative]]

KvsA == << <<"k", "x">>, <<"o", "p">> >>
KvsB == << <<"k", "x">>, <<"o", "q">> >>
KvsInputs == {KvsA, KvsB}

Values == {1, 2}

RequestsCounter == [name |-> "requests", ikind |-> Counter]

\* The state New(lib, views, readers) leaves, before any instrument exists.
InitWith(rs, vs) ==
    /\ readers = rs
    /\ views = vs
    /\ names = [r \in DOMAIN rs |-> {}]
    /\ pipelines = <<>>
    /\ cells = EmptyMap
    /\ insts = <<>>
    /\ saccs = <<>>
    /\ ctxs = {}
    /\ live = {}
    /\ phase = [r \in DOMAIN rs |-> "idle"]
    /\ ncollect = [r \in DOMAIN rs |-> 0]
    /\ out = [reader |-> NilReader, insts |-> <<>>]
    /\ handled = {}
    /\ panicked = FALSE
    /\ clock = 0
    /\ nupdates = 0
    /\ threads = EmptyMap
    /\ locks = EmptyMap

----------------------------------------------------------------------------
(* Synchronous instruments: one Counter, read by a delta reader or by a    *)
(* cumulative reader.                                                      *)

InitSync ==
    \E rs \in {<<DeltaReader>>, <<CumulativeReader>>} : InitWith(rs, <<>>)

CompileSync == insts = <<>> /\ Compile(RequestsCounter)

NewAccumulatorSync == \E i \in SyncIds, kvs \in KvsInputs : NewAccumulator(i, kvs)

UpdateSync == \E a \in DOMAIN saccs, number \in Values : Update(a, number)

AccumulateSync == \E a \in DOMAIN saccs : Accumulate(a)

CollectSync == \E reader \in ReaderIds : Collect(reader)

NextSync ==
    \/ CompileSync
    \/ NewAccumulatorSync
    \/ UpdateSync
    \/ AccumulateSync
    \/ CollectSync

SpecSync == InitSync /\ [][NextSync]_vars

----------------------------------------------------------------------------
(* Reading a collection step: the reader that collected, the pipelines     *)
(* whose Collect ran, and the record each appended.                        *)

CollectStep(reader) == ncollect'[reader] = ncollect[reader] + 1

Collected(p) == \E k \in DOMAIN out'.insts : out'.insts[k].pipe = p

RecordOf(p) == out'.insts[CHOOSE k \in DOMAIN out'.insts : out'.insts[k].pipe = p]

IsProc(p, proc) == p \in DOMAIN pipelines /\ pipelines[p].proc = proc

----------------------------------------------------------------------------
(* C1, C2, C3: the synchronous pipelines. *)

\* C1: when a delta-sync (statelessSync) pipeline is collected, every
\* attribute set whose cell has data gets one series whose value is the sum
\* of the values Accumulate flushed into that cell since the previous
\* Collect, and the cell is reset.
C1_DeltaCollectEmitsAccumulated ==
    [][\A reader \in ReaderIds, p \in DOMAIN pipelines :
        (CollectStep(reader) /\ Collected(p) /\ IsProc(p, "statelessSync")
            /\ pipelines[p].agg = SumKind)
        => \A set \in DOMAIN pipelines[p].data :
             LET c == pipelines[p].data[set] IN
             HasData(SumKind, cells[c].st)
             => /\ set \in DOMAIN RecordOf(p).series
                /\ RecordOf(p).series[set].value.v = cells[c].flushed
                /\ cells'[c].st = InitStorage]_vars

\* C2: when a cumulative-sync (statefulSync) Sum pipeline is collected, its
\* record has temporality Cumulative and one series per attribute set of
\* the data map, whose value is the sum of all values Accumulate flushed
\* into the cell since the pipeline was created; the map and the cells are
\* left as they were.
C2_CumulativeSum ==
    [][\A reader \in ReaderIds, p \in DOMAIN pipelines :
        (CollectStep(reader) /\ Collected(p) /\ IsProc(p, "statefulSync")
            /\ pipelines[p].agg = SumKind)
        => /\ RecordOf(p).temporality = Cumulative
           /\ DOMAIN RecordOf(p).series = DOMAIN pipelines[p].data
           /\ pipelines'[p].data = pipelines[p].data
           /\ \A set \in DOMAIN pipelines[p].data :
                LET c == pipelines[p].data[set] IN
                /\ RecordOf(p).series[set].value.v = cells[c].flushed
                /\ cells'[c] = cells[c]]_vars

\* A second Collect of a cumulative reader has emitted 3 for an attribute
\* set, the sum of the updates flushed before the first one.
C2_Witness ==
    /\ out.reader # NilReader
    /\ ncollect[out.reader] >= 2
    /\ \E k \in DOMAIN out.insts :
         /\ out.insts[k].temporality = Cumulative
         /\ IsProc(out.insts[k].pipe, "statefulSync")
         /\ \E set \in DOMAIN out.insts[k].series :
              /\ out.insts[k].series[set].value.v = 3
              /\ out.insts[k].series[set].start >= 1
    /\ nupdates = 2

\* C3: every value passed to Update and flushed by Accumulate shows in the
\* next Collect of the delta-sync pipeline: a cell of the pipeline that
\* received flushed values since the previous Collect has a series for its
\* attribute set in the record.
C3_NoUpdateLost ==
    [][\A reader \in ReaderIds, p \in DOMAIN pipelines :
        (CollectStep(reader) /\ Collected(p) /\ IsProc(p, "statelessSync"))
        => \A c \in DOMAIN cells :
             (c[1] = p /\ cells[c].flushed # 0)
             => c[2] \in DOMAIN RecordOf(p).series]_vars

----------------------------------------------------------------------------
(* Asynchronous instruments read by a delta reader (cumulative-to-delta):  *)
(* one instrument, a CounterObserver or a GaugeObserver, one callback that *)
(* declares it, and Observe called from inside the callback only.          *)

ObsValues == {1, 2}

QueueCounter == [name |-> "queue", ikind |-> CounterObserver]
TempGauge == [name |-> "temp", ikind |-> GaugeObserver]

InitAsync == InitWith(<<DeltaReader>>, <<>>)

CompileAsync ==
    /\ insts = <<>>
    /\ \E d \in {QueueCounter, TempGauge} : Compile(d)

RunBeginAsync == \E reader \in ReaderIds : RunBegin(AsyncIds, reader)

ObserveAsync ==
    \E i \in AsyncIds, ctx \in live, value \in ObsValues, kvs \in KvsInputs :
        Observe(i, ctx, value, kvs)

RunReturnAsync == \E reader \in ReaderIds : RunReturn(reader)

AccumulateForAsync == \E reader \in ReaderIds : AccumulateFor(reader)

CollectAsync == \E reader \in ReaderIds : Collect(reader)

NextAsync ==
    \/ CompileAsync
    \/ RunBeginAsync
    \/ ObserveAsync
    \/ RunReturnAsync
    \/ AccumulateForAsync
    \/ CollectAsync

SpecAsync == InitAsync /\ [][NextAsync]_vars

----------------------------------------------------------------------------
(* C4, C5: the cumulative-to-delta pipeline. *)

CounterLikeSum(p) ==
    /\ IsProc(p, "statefulAsync")
    /\ HasTemporality(pipelines[p].desc.ikind)
    /\ pipelines[p].agg = SumKind

\* C4 as stated: in a cumulative-to-delta pipeline of a counter-like
\* instrument, the sum of all the deltas emitted so far for an attribute
\* set is the cumulative value most recently observed for it (which the
\* prior map holds after the Collect), also when some collection in
\* between did not observe the set.
C4_DeltaTelescoping ==
    \A p \in DOMAIN pipelines :
        CounterLikeSum(p)
        => \A set \in DOMAIN pipelines[p].prior :
             pipelines[p].sent[set].total = cells[pipelines[p].prior[set]].st.v

\* C4 as the code has it: the deltas emitted for an attribute set since it
\* was last missing from a collection add up to the cumulative value most
\* recently observed, that is cumulative(C_k+1) = cumulative(C_k) +
\* delta(C_k+1) for successive collections that both observe the set.
C4_DeltaTelescopingWhileObserved ==
    \A p \in DOMAIN pipelines :
        CounterLikeSum(p)
        => \A set \in DOMAIN pipelines[p].prior :
             pipelines[p].sent[set].streak = cells[pipelines[p].prior[set]].st.v

\* Two successive collections observed 1 and then 2 for an attribute set:
\* the second Collect emitted the delta 1.
C4_Witness ==
    \E p \in DOMAIN pipelines :
        /\ CounterLikeSum(p)
        /\ ncollect[pipelines[p].reader] = 2
        /\ \E k \in DOMAIN out.insts, set \in DOMAIN pipelines[p].prior :
             /\ out.insts[k].pipe = p
             /\ set \in DOMAIN out.insts[k].series
             /\ out.insts[k].series[set].value.v = 1
             /\ cells[pipelines[p].prior[set]].st.v = 2
             /\ pipelines[p].sent[set].streak = 2

\* C5: the emission rule of the cumulative-to-delta Collect.  A set of the
\* data map without a prior is emitted with the observed storage.  With a
\* prior, the difference is new minus prior (for LastValue, the new value);
\* nothing is emitted when the difference has no data, else a counter-like
\* instrument emits the difference and a Gauge the observed storage.  A
\* set that is not in the data map has no series.
C5_EmissionRule ==
    [][\A reader \in ReaderIds, p \in DOMAIN pipelines :
        (CollectStep(reader) /\ Collected(p) /\ IsProc(p, "statefulAsync"))
        => LET data == pipelines[p].data
               prior == pipelines[p].prior
               sum == pipelines[p].agg = SumKind
               new(set) == cells[data[set]].st
               old(set) == cells[prior[set]].st
               diffHasData(set) == IF sum THEN new(set).v - old(set).v # 0
                                   ELSE new(set).ts # 0
           IN  /\ DOMAIN RecordOf(p).series =
                    {set \in DOMAIN data :
                        set \in DOMAIN prior => diffHasData(set)}
               /\ \A set \in DOMAIN RecordOf(p).series :
                    LET value == RecordOf(p).series[set].value IN
                    IF set \in DOMAIN prior
                       /\ HasTemporality(pipelines[p].desc.ikind) /\ sum
                    THEN value.v = new(set).v - old(set).v
                    ELSE value = new(set)]_vars

\* A Gauge observed 1 and then 2: the second Collect emitted 2.
C5_Witness ==
    \E p \in DOMAIN pipelines :
        /\ IsProc(p, "statefulAsync")
        /\ pipelines[p].desc.ikind = GaugeObserver
        /\ ncollect[pipelines[p].reader] = 2
        /\ \E k \in DOMAIN out.insts, set \in DOMAIN pipelines[p].prior :
             /\ out.insts[k].pipe = p
             /\ set \in DOMAIN out.insts[k].series
             /\ out.insts[k].series[set].value.v = 2
             /\ pipelines[p].sent[set].total = 3

----------------------------------------------------------------------------
(* Observation scope: two asynchronous instruments read by a cumulative    *)
(* reader, a callback that declares the first of them only, and Observe    *)
(* called with any context: none, the one of the running callback, or one  *)
(* kept from a callback that has returned.                                 *)

ScopeValues == {1, -1}

InitScope == InitWith(<<CumulativeReader>>, <<>>)

CompileScope == \E d \in {QueueCounter, TempGauge} : Compile(d)

RunBeginScope == \E reader \in ReaderIds : RunBegin({1}, reader)

ObserveScope ==
    \E i \in AsyncIds, ctx \in ctxs \cup {NoCtx}, value \in ScopeValues :
        Observe(i, ctx, value, KvsA)

RunReturnScope == \E reader \in ReaderIds : RunReturn(reader)

AccumulateForScope == \E reader \in ReaderIds : AccumulateFor(reader)

CollectScope == \E reader \in ReaderIds : Collect(reader)

NextScope ==
    \/ CompileScope
    \/ RunBeginScope
    \/ ObserveScope
    \/ RunReturnScope
    \/ AccumulateForScope
    \/ CollectScope

SpecScope == InitScope /\ [][NextScope]_vars

----------------------------------------------------------------------------
(* C6, C7, C8: the observation contract. *)

NothingMeasured ==
    /\ insts' = insts
    /\ pipelines' = pipelines
    /\ cells' = cells
    /\ out' = out

\* C6: an Observe made in the context of a running callback on an
\* instrument the callback did not declare is reported and dropped: no
\* accumulator is made or updated, no cell is made.
C6_UndeclaredDropped ==
    [][\A i \in AsyncIds, ctx \in live, value \in ScopeValues :
        (i \notin ctx.cb /\ Observe(i, ctx, value, KvsA))
        => ErrUndeclared \in handled' /\ NothingMeasured]_vars

\* C7: an Observe whose context carries no callback scope reports the
\* error and changes nothing else: no store, pipeline, cell or output.
C7_OutsideCallback ==
    [][\A i \in AsyncIds, value \in ScopeValues :
        Observe(i, NoCtx, value, KvsA)
        => ErrOutside \in handled' /\ NothingMeasured /\ ~panicked']_vars

\* An Observe outside any callback has been reported while a callback has
\* run before and nothing is in any store.
C7_Witness ==
    /\ ErrOutside \in handled
    /\ ctxs # {}
    /\ AsyncIds # {}
    /\ \A i \in AsyncIds, r \in ReaderIds : insts[i].state[r] = EmptyMap
    /\ pipelines # <<>>
    /\ \A p \in DOMAIN pipelines : pipelines[p].data = EmptyMap

\* C8: once Run has returned, an Observe with the context that was handed
\* to the callback is a no-op that is reported.
C8_ScopeEndsWithRun ==
    [][\A i \in AsyncIds, ctx \in ctxs \ live, value \in ScopeValues :
        Observe(i, ctx, value, KvsA)
        => handled' # {} /\ NothingMeasured]_vars

----------------------------------------------------------------------------
(* Several readers: one instrument, a Counter or a CounterObserver,        *)
(* compiled for two readers that differ in temporality or of which one     *)
(* drops the instrument, and measured and collected by both.               *)

MultiReaders ==
    {<<DeltaReader, CumulativeReader>>,
     <<CumulativeReader, DropReader>>,
     <<DeltaReader, DropReader>>}

InitMulti == \E rs \in MultiReaders : InitWith(rs, <<>>)

CompileMulti ==
    /\ insts = <<>>
    /\ \E d \in {RequestsCounter, QueueCounter} : Compile(d)

NewAccumulatorMulti == \E i \in SyncIds : NewAccumulator(i, KvsA)

UpdateMulti == \E a \in DOMAIN saccs : Update(a, 1)

AccumulateMulti == \E a \in DOMAIN saccs : Accumulate(a)

RunBeginMulti == \E reader \in ReaderIds : RunBegin(AsyncIds, reader)

ObserveMulti ==
    \E i \in AsyncIds, ctx \in live : Observe(i, ctx, 1, KvsA)

RunReturnMulti == \E reader \in ReaderIds : RunReturn(reader)

AccumulateForMulti == \E reader \in ReaderIds : AccumulateFor(reader)

CollectMulti == \E reader \in ReaderIds : Collect(reader)

NextMulti ==
    \/ CompileMulti
    \/ NewAccumulatorMulti
    \/ UpdateMulti
    \/ AccumulateMulti
    \/ RunBeginMulti
    \/ ObserveMulti
    \/ RunReturnMulti
    \/ AccumulateForMulti
    \/ CollectMulti

SpecMulti == InitMulti /\ [][NextMulti]_vars

----------------------------------------------------------------------------
(* C9, C10: readers and temporality. *)

\* C9: Collect for a reader appends series from, and changes the state of,
\* only the pipelines compiled for that reader: a pipeline of another
\* reader appends no record and keeps its maps and cells.
C9_NoCrossReaderBleed ==
    [][\A reader \in ReaderIds, p \in DOMAIN pipelines :
        (CollectStep(reader) /\ pipelines[p].reader # reader)
        => /\ ~Collected(p)
           /\ pipelines'[p] = pipelines[p]
           /\ \A c \in DOMAIN cells : c[1] = p =>
                c \in DOMAIN cells' /\ cells'[c] = cells[c]]_vars

\* The process type that the temporality of the pipeline's reader selects.
SelectedProc(p) ==
    LET tempo == readers[pipelines[p].reader][pipelines[p].desc.ikind].tempo
    IN  IF Synchronous(pipelines[p].desc.ikind)
        THEN (IF tempo = Delta THEN "statelessSync" ELSE "statefulSync")
        ELSE (IF tempo = Delta THEN "statefulAsync" ELSE "statelessAsync")

\* C10: every pipeline is of the process type that the default temporality
\* of its reader selects (Delta: stateless sync, stateful async;
\* Cumulative: stateful sync, stateless async), and every record a
\* pipeline's Collect has appended carries the temporality of the reader
\* the pipeline was built for.
C10_TemporalitySelection ==
    /\ \A p \in DOMAIN pipelines : pipelines[p].proc = SelectedProc(p)
    /\ \A k \in DOMAIN out.insts :
         LET p == out.insts[k].pipe IN
         out.insts[k].temporality =
            readers[pipelines[p].reader][pipelines[p].desc.ikind].tempo

\* A delta reader and a cumulative reader share a CounterObserver: the
\* delta reader's collection has emitted a series from its stateful
\* pipeline, next to the stateless pipeline of the other reader.
C10_Witness ==
    /\ \E p, q \in DOMAIN pipelines :
         /\ pipelines[p].proc = "statefulAsync"
         /\ pipelines[q].proc = "statelessAsync"
         /\ pipelines[p].reader # pipelines[q].reader
    /\ \E k \in DOMAIN out.insts :
         /\ out.insts[k].temporality = Delta
         /\ pipelines[out.insts[k].pipe].reader = out.reader
         /\ out.insts[k].series # EmptyMap

----------------------------------------------------------------------------
(* Views and emitted names: a compiler with views that rename the Counter  *)
(* (twice to the same name, or to the name of another instrument), one or  *)
(* two readers, and any instruments compiled on it in any order.           *)

View(ms, agg, hasName, name, keys) ==
    [matches |-> ms, agg |-> agg, hasName |-> hasName, name |-> name,
     keys |-> keys]

\* Two views that give the Counter the same name, and one that keeps its own.
SameNameViews ==
    <<View({"requests"}, UndefinedKind, TRUE, "hits", NoFilter),
      View({"requests"}, UndefinedKind, TRUE, "hits", KeyFilter({"k"})),
      View({"requests"}, UndefinedKind, FALSE, "", NoFilter)>>

\* A view that gives the Counter the name of the CounterObserver.
OtherNameViews ==
    <<View({"requests"}, UndefinedKind, TRUE, "queue", NoFilter)>>

NamesViews == {<<>>, SameNameViews, OtherNameViews}

NamesReaders == MultiReaders \cup {<<DeltaReader>>}

InitNames == \E rs \in NamesReaders, vs \in NamesViews : InitWith(rs, vs)

CompileNames == \E d \in {RequestsCounter, QueueCounter, TempGauge} : Compile(d)

NextNames == CompileNames

SpecNames == InitNames /\ [][NextNames]_vars

----------------------------------------------------------------------------
(* C11: emitted names. *)

\* The pipelines a Compile step has added.
NewPipelines == {p \in DOMAIN pipelines' : p \notin DOMAIN pipelines}

\* C11: no two pipelines of one reader have the same emitted name.  In a
\* Compile step, for each reader and each name its behaviours yield: when
\* the name is in the reader's name set already, the error is reported and
\* no pipeline is built for it; otherwise one pipeline is built, from the
\* first behaviour with that name, and the error is reported when there are
\* more of them.  This is by reader, whatever happens for the other readers
\* and the other names.
C11_UniqueNames ==
    /\ [](\A p, q \in DOMAIN pipelines :
            (p # q /\ pipelines[p].reader = pipelines[q].reader)
            => pipelines[p].desc.name # pipelines[q].desc.name)
    /\ [][Len(insts') = Len(insts) + 1
          => LET d == insts'[Len(insts')].desc IN
             \A r \in ReaderIds :
               LET configs == ConfigsFor(d, r)
                   built(n) == {p \in NewPipelines :
                                  /\ pipelines'[p].reader = r
                                  /\ pipelines'[p].desc.name = n}
                   first(n) == CHOOSE i \in DOMAIN configs :
                                 /\ configs[i].desc.name = n
                                 /\ \A j \in 1..(i - 1) : configs[j].desc.name # n
                   count(n) == Cardinality({i \in DOMAIN configs :
                                               configs[i].desc.name = n})
               IN  /\ \A p \in NewPipelines : pipelines'[p].reader = r
                        => \E i \in DOMAIN configs :
                             configs[i].desc.name = pipelines'[p].desc.name
                   /\ \A n \in {configs[i].desc.name : i \in DOMAIN configs} :
                        IF n \in names[r]
                        THEN built(n) = {} /\ ErrDuplicate \in handled'
                        ELSE /\ Cardinality(built(n)) = 1
                             /\ \A p \in built(n) :
                                  pipelines'[p].keys = configs[first(n)].keys
                             /\ count(n) > 1 => ErrDuplicate \in handled']_vars

\* One Compile call met three behaviours for a reader, skipped the second
\* for its name and built the first and the third, while another reader got
\* its own two pipelines.
C11_Witness ==
    /\ Len(insts) = 1
    /\ ErrDuplicate \in handled
    /\ Len(readers) = 2
    /\ \A r \in ReaderIds :
         /\ Len(ConfigsFor(insts[1].desc, r)) = 3
         /\ {pipelines[p].desc.name : p \in {q \in DOMAIN pipelines :
                                               pipelines[q].reader = r}}
              = {"hits", "requests"}
         /\ Cardinality({q \in DOMAIN pipelines : pipelines[q].reader = r}) = 2

----------------------------------------------------------------------------
(* Instruments without a pipeline: asynchronous instruments on a compiler  *)
(* whose only reader drops them, or whose reader keeps them and that       *)
(* compiles the same name a second time; a callback that declares all of   *)
(* them.                                                                   *)

InitNull == \E rs \in {<<DropReader>>, <<CumulativeReader>>} : InitWith(rs, <<>>)

CompileNull == \E d \in {QueueCounter, TempGauge} : Compile(d)

RunBeginNull == \E reader \in ReaderIds : RunBegin(AsyncIds, reader)

ObserveNull ==
    \E i \in AsyncIds, ctx \in live, value \in ObsValues :
        Observe(i, ctx, value, KvsA)

RunReturnNull == \E reader \in ReaderIds : RunReturn(reader)

AccumulateForNull == \E reader \in ReaderIds : AccumulateFor(reader)

CollectNull == \E reader \in ReaderIds : Collect(reader)

NextNull ==
    \/ CompileNull
    \/ RunBeginNull
    \/ ObserveNull
    \/ RunReturnNull
    \/ AccumulateForNull
    \/ CollectNull

SpecNull == InitNull /\ [][NextNull]_vars

----------------------------------------------------------------------------
(* C12: the null instrument. *)

\* C12: an Observe, inside a callback that declares it, on an instrument
\* for which Compile built no pipeline completes without failure and
\* measures nothing.
C12_NullDiscards ==
    [][\A i \in AsyncIds, ctx \in live, value \in ObsValues :
        (insts[i].compiled = NilInstrument /\ i \in ctx.cb
            /\ Observe(i, ctx, value, KvsA))
        => ~panicked' /\ NothingMeasured]_vars

----------------------------------------------------------------------------
(* C13: observer overwrite, on the cumulative-to-delta instruments. *)

\* The accumulators in the store of (i, reader), as <<attribute set, leaf>>.
StoreLeaves(i, reader) ==
    UNION {{<<aset, l>> : l \in DOMAIN insts[i].state[reader][aset]} :
              aset \in DOMAIN insts[i].state[reader]}

\* C13: within one callback run the value held for (reader, attribute set)
\* is that of the last Observe: an Observe leaves its value in the
\* accumulator, nothing but an Observe for that set changes it, and
\* AccumulateFor flushes exactly that value into the pipeline's cell.
C13_ObserverOverwrite ==
    /\ [][\A i \in AsyncIds, ctx \in live, value \in ObsValues,
            kvs \in KvsInputs :
            Observe(i, ctx, value, kvs)
            => /\ NewSet(kvs) \in DOMAIN insts'[i].state[ctx.reader]
               /\ \A l \in DOMAIN insts'[i].state[ctx.reader][NewSet(kvs)] :
                    insts'[i].state[ctx.reader][NewSet(kvs)][l].current = value]_vars
    /\ [][\A i \in AsyncIds, reader \in ReaderIds :
            \A e \in StoreLeaves(i, reader) :
              LET before == insts[i].state[reader][e[1]][e[2]] IN
              IF phase'[reader] = "flushed" /\ phase[reader] # "flushed"
              THEN /\ before.output \in DOMAIN cells'
                   /\ cells'[before.output].st.v = before.current
                   /\ cells'[before.output].flushed = before.current
              ELSE /\ e[1] \in DOMAIN insts'[i].state[reader]
                   /\ insts'[i].state[reader][e[1]][e[2]].current
                         # before.current
                      => \E ctx \in live, kvs \in KvsInputs :
                           /\ ctx.reader = reader
                           /\ NewSet(kvs) = e[1]
                           /\ \E value \in ObsValues :
                                Observe(i, ctx, value, kvs)]_vars

\* In the first callback run both measurements were Observe calls on one
\* attribute set, and AccumulateFor has flushed 2 into its cell: neither 3
\* nor 4.
C13_Witness ==
    /\ AsyncIds # {}
    /\ nupdates = 2
    /\ handled = {}
    /\ \E reader \in ReaderIds :
         /\ phase[reader] = "flushed"
         /\ ncollect[reader] = 0
         /\ \E p \in DOMAIN pipelines :
              /\ pipelines[p].reader = reader
              /\ pipelines[p].agg = SumKind
              /\ Cardinality(DOMAIN pipelines[p].data) = 1
              /\ \A set \in DOMAIN pipelines[p].data :
                   cells[pipelines[p].data[set]].st.v = 2

----------------------------------------------------------------------------
(* A key filter: the Counter under a view that keeps the key "k" only,     *)
(* read by a delta reader or by a cumulative reader.  The two attribute    *)
(* lists of KvsInputs differ in the key "o" alone.                         *)

FilterViews == <<View({"requests"}, UndefinedKind, FALSE, "", KeyFilter({"k"}))>>

InitFilter ==
    \E rs \in {<<DeltaReader>>, <<CumulativeReader>>} : InitWith(rs, FilterViews)

NextFilter == NextSync

SpecFilter == InitFilter /\ [][NextFilter]_vars

----------------------------------------------------------------------------
(* C14: attribute filter merging. *)

\* The leaves of the synchronous accumulators, as <<accumulator, leaf>>.
SyncLeaves == UNION {{<<a, l>> : l \in DOMAIN saccs[a]} : a \in DOMAIN saccs}

\* C14: in a pipeline with key filter F every cell is keyed by a filtered
\* attribute set; accumulators of one pipeline whose attribute lists
\* filter to the same set share one output cell; and Collect emits, under
\* that set, one series whose value is the sum of what all of them flushed
\* (+1 and +2 give 3).
C14_FilterMerging ==
    /\ [](\A p \in DOMAIN pipelines :
            pipelines[p].keys.on
            => \A set \in DOMAIN pipelines[p].data :
                 \A kv \in set : kv[1] \in pipelines[p].keys.keys)
    /\ [](\A e, f \in SyncLeaves :
            LET x == saccs[e[1]][e[2]].output
                y == saccs[f[1]][f[2]].output
            IN  (x[1] = y[1] /\ x[2] = y[2]) => x = y)
    /\ [][\A reader \in ReaderIds, p \in DOMAIN pipelines :
            (CollectStep(reader) /\ Collected(p) /\ pipelines[p].keys.on)
            => /\ \A set \in DOMAIN RecordOf(p).series :
                    \A kv \in set : kv[1] \in pipelines[p].keys.keys
               /\ \A set \in DOMAIN pipelines[p].data :
                    LET c == pipelines[p].data[set] IN
                    cells[c].flushed # 0
                    => /\ set \in DOMAIN RecordOf(p).series
                       /\ RecordOf(p).series[set].value.v = cells[c].flushed]_vars

----------------------------------------------------------------------------
(* C15: the sweep of the delta-sync Collect, on the Counter of the         *)
(* synchronous instruments.                                                *)

\* C15: a delta-sync Collect emits a series for exactly the attribute sets
\* whose cell has data, resets those cells and keeps them in the map, and
\* removes from the map the sets whose cell has no data.  A set that gets
\* no more updates is so emitted by one Collect, which leaves it in the map
\* with a cell without data, and removed by the next.
C15_DeltaSweep ==
    [][\A reader \in ReaderIds, p \in DOMAIN pipelines :
        (CollectStep(reader) /\ Collected(p) /\ IsProc(p, "statelessSync"))
        => LET data == pipelines[p].data
               withData == {set \in DOMAIN data :
                              HasData(pipelines[p].agg, cells[data[set]].st)}
           IN  /\ DOMAIN RecordOf(p).series = withData
               /\ DOMAIN pipelines'[p].data = withData
               /\ \A set \in withData :
                    /\ pipelines'[p].data[set] = data[set]
                    /\ ~HasData(pipelines[p].agg, cells'[data[set]].st)]_vars

\* One update was flushed and two Collects followed: the first emitted the
\* attribute set and reset its cell, the second removed it from the map.
C15_Witness ==
    /\ nupdates = 1
    /\ saccs # <<>>
    /\ \A e \in SyncLeaves : saccs[e[1]][e[2]].current = InitStorage
    /\ \A c \in DOMAIN cells : cells[c].st = InitStorage
    /\ \E p \in DOMAIN pipelines :
         /\ IsProc(p, "statelessSync")
         /\ ncollect[pipelines[p].reader] = 2
         /\ pipelines[p].data = EmptyMap

----------------------------------------------------------------------------
(* Asynchronous instruments read by a cumulative reader: as the            *)
(* cumulative-to-delta instruments, with the reader's temporality changed. *)

InitAsyncCumulative == InitWith(<<CumulativeReader>>, <<>>)

NextAsyncCumulative == NextAsync

SpecAsyncCumulative == InitAsyncCumulative /\ [][NextAsyncCumulative]_vars

----------------------------------------------------------------------------
(* C16: the asynchronous cumulative pipeline. *)

\* C16: a statelessAsync Collect emits one series per attribute set of the
\* data map, with the value that the callback run of this collection
\* flushed into the cell, and leaves the map empty; so the map is empty
\* when a collection starts, and a set that the next run does not observe
\* has no series in the next Collect.
C16_RebuiltEachCollection ==
    /\ [](\A p \in DOMAIN pipelines :
            (IsProc(p, "statelessAsync") /\ phase[pipelines[p].reader] = "idle")
            => pipelines[p].data = EmptyMap)
    /\ [][\A reader \in ReaderIds, p \in DOMAIN pipelines :
            (CollectStep(reader) /\ Collected(p) /\ IsProc(p, "statelessAsync"))
            => LET data == pipelines[p].data IN
               /\ RecordOf(p).temporality = Cumulative
               /\ DOMAIN RecordOf(p).series = DOMAIN data
               /\ \A set \in DOMAIN data :
                    /\ RecordOf(p).series[set].value = cells[data[set]].st
                    /\ RecordOf(p).series[set].value.v = cells[data[set]].flushed
               /\ pipelines'[p].data = EmptyMap]_vars

\* The one observation was made in the first callback run; the second
\* Collect has just emitted a record without any series.
C16_Witness ==
    /\ nupdates = 1
    /\ handled = {}
    /\ \E p \in DOMAIN pipelines :
         /\ IsProc(p, "statelessAsync")
         /\ ncollect[pipelines[p].reader] = 2
         /\ phase[pipelines[p].reader] = "idle"
         /\ out.reader = pipelines[p].reader
         /\ \E k \in DOMAIN out.insts :
              out.insts[k].pipe = p /\ out.insts[k].series = EmptyMap

----------------------------------------------------------------------------
(* Operations step by step.  An operation in progress is a thread: a       *)
(* record with the operation's name (op), its position (at) and its        *)
(* locals.  A mutex is in `locks` while it is held; Lock() is a step that  *)
(* is enabled when the mutex is free.                                      *)

Free(l) == l \notin DOMAIN locks

PipelineLock(p) == <<"baseMetric.lock", p>>

NewThread == CHOOSE t \in 1..MaxThreads : t \notin DOMAIN threads

CanStart == ~panicked /\ Cardinality(DOMAIN threads) < MaxThreads

Running(op, at) == {t \in DOMAIN threads : threads[t].op = op /\ threads[t].at = at}

\* syncAccumulator.Accumulate / multiAccumulator.Accumulate is entered, on
\* an accumulator that no other call is flushing.
AccumulateBegin(a) ==
    /\ CanStart
    /\ a \in DOMAIN saccs
    /\ \A t \in DOMAIN threads : threads[t].op = "Accumulate" => threads[t].a # a
    /\ threads' = MapPut(threads, NewThread,
                    [op |-> "Accumulate", at |-> "move", a |-> a, l |-> 1,
                     snapshot |-> InitStorage])
    /\ UNCHANGED <<locks, readers, views, names, pipelines, cells, insts, saccs,
                   ctxs, live, phase, ncollect, out, handled, panicked, clock,
                   nupdates>>

\* methods.SynchronizedMove(&sc.current, &sc.snapshot)
AccumulateMove(t) ==
    /\ t \in Running("Accumulate", "move")
    /\ LET a == threads[t].a
           l == threads[t].l
       IN  /\ threads' = [threads EXCEPT ![t].snapshot = saccs[a][l].current,
                                         ![t].at = "merge"]
           /\ saccs' = [saccs EXCEPT ![a][l].current = InitStorage]
    /\ UNCHANGED <<locks, readers, views, names, pipelines, cells, insts, ctxs,
                   live, phase, ncollect, out, handled, panicked, clock,
                   nupdates>>

\* methods.Merge(&sc.snapshot, sc.output): no lock is taken.
AccumulateMerge(t) ==
    /\ t \in Running("Accumulate", "merge")
    /\ LET a == threads[t].a
           l == threads[t].l
           leaf == saccs[a][l]
       IN  /\ cells' = [cells EXCEPT ![leaf.output] =
                          MergeIntoOutput(leaf.agg, threads[t].snapshot, @)]
           /\ threads' = IF l < Len(saccs[a])
                         THEN [threads EXCEPT ![t].l = l + 1, ![t].at = "move"]
                         ELSE MapDelete(threads, t)
    /\ UNCHANGED <<locks, readers, views, names, pipelines, insts, saccs, ctxs,
                   live, phase, ncollect, out, handled, panicked, clock,
                   nupdates>>

\* The pipelines a collection of the reader visits, in order.
RECURSIVE AllCollectPipes(_, _)
AllCollectPipes(i, reader) ==
    IF i > Len(insts) THEN <<>>
    ELSE CollectPipes(insts[i].compiled, reader) \o AllCollectPipes(i + 1, reader)

\* A collection of the reader is entered: Collect(reader, sequence, &output)
\* will be called on every instrument.
CollectBegin(reader) ==
    /\ CanStart
    /\ reader \in ReaderIds
    /\ insts # <<>>
    /\ ncollect[reader] < MaxCollects
    /\ \A t \in DOMAIN threads :
         threads[t].op = "Collect" => threads[t].reader # reader
    /\ threads' = MapPut(threads, NewThread,
                    [op |-> "Collect", at |-> "lock", reader |-> reader,
                     seq |-> Sequence(reader),
                     pipes |-> AllCollectPipes(1, reader),
                     output |-> <<>>, todo |-> {}, set |-> {},
                     ns |-> InitStorage, seen |-> InitStorage])
    /\ UNCHANGED <<locks, readers, views, names, pipelines, cells, insts, saccs,
                   ctxs, live, phase, ncollect, out, handled, panicked, clock,
                   nupdates>>

\* statelessSyncProcess.Collect: p.lock.Lock(), the append of the
\* reader.Instrument, and the start of the range over p.data.
CollectLock(t) ==
    /\ t \in Running("Collect", "lock")
    /\ threads[t].pipes # <<>>
    /\ LET p == Head(threads[t].pipes) IN
       /\ pipelines[p].proc = "statelessSync"
       /\ Free(PipelineLock(p))
       /\ locks' = MapPut(locks, PipelineLock(p), t)
       /\ threads' = [threads EXCEPT
                        ![t].at = "range",
                        ![t].todo = DOMAIN pipelines[p].data,
                        ![t].output = Append(@,
                            [desc |-> pipelines[p].desc, temporality |-> Delta,
                             pipe |-> p, series |-> EmptyMap])]
    /\ UNCHANGED <<readers, views, names, pipelines, cells, insts, saccs, ctxs,
                   live, phase, ncollect, out, handled, panicked, clock,
                   nupdates>>

\* The next entry of the range: without data it is deleted from the map,
\* with data it is the one to copy.
CollectTest(t) ==
    /\ t \in Running("Collect", "range")
    /\ LET p == Head(threads[t].pipes) IN
       \E set \in threads[t].todo :
         IF HasData(pipelines[p].agg, cells[pipelines[p].data[set]].st)
         THEN /\ threads' = [threads EXCEPT ![t].at = "copy", ![t].set = set]
              /\ UNCHANGED pipelines
         ELSE /\ pipelines' = [pipelines EXCEPT ![p].data = MapDelete(@, set)]
              /\ threads' = [threads EXCEPT ![t].todo = @ \ {set}]
    /\ UNCHANGED <<locks, readers, views, names, cells, insts, saccs, ctxs,
                   live, phase, ncollect, out, handled, panicked, clock,
                   nupdates>>

\* ns := p.newStorage(); methods.Merge(ns, storage)
CollectCopy(t) ==
    /\ t \in Running("Collect", "copy")
    /\ LET p == Head(threads[t].pipes)
           c == pipelines[p].data[threads[t].set]
           ns == InitStorage
       IN  /\ cells' = [cells EXCEPT ![c].st = MMerge(pipelines[p].agg, ns, @)]
           /\ threads' = [threads EXCEPT ![t].at = "reset", ![t].ns = ns,
                                         ![t].seen = cells[c].st]
    /\ UNCHANGED <<locks, readers, views, names, pipelines, insts, saccs, ctxs,
                   live, phase, ncollect, out, handled, panicked, clock,
                   nupdates>>

\* methods.Reset(storage) and the append of the series.
CollectReset(t) ==
    /\ t \in Running("Collect", "reset")
    /\ LET p == Head(threads[t].pipes)
           set == threads[t].set
           c == pipelines[p].data[set]
           seq == threads[t].seq
           k == Len(threads[t].output)
       IN  /\ cells' = [cells EXCEPT ![c] = [st |-> InitStorage, flushed |-> 0]]
           /\ threads' = [threads EXCEPT
                            ![t].at = "range",
                            ![t].todo = @ \ {set},
                            ![t].output[k].series =
                                MapPut(@, set,
                                       Series(threads[t].ns, seq.Last, seq.Now))]
    /\ UNCHANGED <<locks, readers, views, names, pipelines, insts, saccs, ctxs,
                   live, phase, ncollect, out, handled, panicked, clock,
                   nupdates>>

\* The range is over: the deferred p.lock.Unlock().
CollectUnlock(t) ==
    /\ t \in Running("Collect", "range")
    /\ threads[t].todo = {}
    /\ locks' = MapDelete(locks, PipelineLock(Head(threads[t].pipes)))
    /\ threads' = [threads EXCEPT ![t].at = "lock", ![t].pipes = Tail(@)]
    /\ UNCHANGED <<readers, views, names, pipelines, cells, insts, saccs, ctxs,
                   live, phase, ncollect, out, handled, panicked, clock,
                   nupdates>>

\* Every pipeline was collected: the output goes to the reader.
CollectEnd(t) ==
    /\ t \in Running("Collect", "lock")
    /\ threads[t].pipes = <<>>
    /\ out' = [reader |-> threads[t].reader, insts |-> threads[t].output]
    /\ ncollect' = [ncollect EXCEPT ![threads[t].reader] = @ + 1]
    /\ cells' = Sweep(cells, pipelines, saccs, insts)
    /\ threads' = MapDelete(threads, t)
    /\ UNCHANGED <<locks, readers, views, names, pipelines, insts, saccs, ctxs,
                   live, phase, handled, panicked, clock, nupdates>>

----------------------------------------------------------------------------
(* Accumulate against Collect: the Counter read by a delta reader, its     *)
(* accumulators flushed while the reader collects.                         *)

InitRace == InitWith(<<DeltaReader>>, <<>>)

NewAccumulatorRace == \E i \in SyncIds : NewAccumulator(i, KvsA)

UpdateRace == \E a \in DOMAIN saccs : Update(a, 1)

AccumulateBeginRace == \E a \in DOMAIN saccs : AccumulateBegin(a)

AccumulateMoveRace == \E t \in DOMAIN threads : AccumulateMove(t)

AccumulateMergeRace == \E t \in DOMAIN threads : AccumulateMerge(t)

CollectBeginRace == \E reader \in ReaderIds : CollectBegin(reader)

CollectLockRace == \E t \in DOMAIN threads : CollectLock(t)

CollectTestRace == \E t \in DOMAIN threads : CollectTest(t)

CollectCopyRace == \E t \in DOMAIN threads : CollectCopy(t)

CollectResetRace == \E t \in DOMAIN threads : CollectReset(t)

CollectUnlockRace == \E t \in DOMAIN threads : CollectUnlock(t)

CollectEndRace == \E t \in DOMAIN threads : CollectEnd(t)

NextRace ==
    \/ CompileSync
    \/ NewAccumulatorRace
    \/ UpdateRace
    \/ AccumulateBeginRace
    \/ AccumulateMoveRace
    \/ AccumulateMergeRace
    \/ CollectBeginRace
    \/ CollectLockRace
    \/ CollectTestRace
    \/ CollectCopyRace
    \/ CollectResetRace
    \/ CollectUnlockRace
    \/ CollectEndRace

SpecRace == InitRace /\ [][NextRace]_vars

----------------------------------------------------------------------------
(* C17: Accumulate concurrent with the delta-sync Collect. *)

\* C17: no flushed value is erased without having been copied: what the
\* Reset of a delta-sync Collect erases from a cell is what the Collect
\* copied from it.
C17_AccumulateDuringCollect ==
    [][\A t \in Running("Collect", "reset") :
        CollectReset(t)
        => cells[pipelines[Head(threads[t].pipes)].data[threads[t].set]].st
              = threads[t].seen]_vars

----------------------------------------------------------------------------
(* Overlapping collection cycles: one asynchronous instrument read by a    *)
(* cumulative reader, and collection cycles of that reader (Callback.Run   *)
(* with its Observe calls, then AccumulateFor, then Collect) that run as   *)
(* threads.  Each of Observe's get, AccumulateFor and Collect runs under   *)
(* its own lock and is one step; nothing in Run, AccumulateFor or Collect  *)
(* keeps a second cycle from starting before the first has ended.          *)

CycleCtx(reader) == [reader |-> reader, cb |-> AsyncIds]

Cycles(reader) ==
    {t \in DOMAIN threads : threads[t].op = "Cycle" /\ threads[t].reader = reader}

\* Callback.Run calls the function.
CycleRun(reader) ==
    /\ CanStart
    /\ reader \in ReaderIds
    /\ AsyncIds # {}
    /\ ncollect[reader] + Cardinality(Cycles(reader)) < MaxCollects
    /\ threads' = MapPut(threads, NewThread,
                    [op |-> "Cycle", at |-> "callback", reader |-> reader])
    /\ ctxs' = ctxs \cup {CycleCtx(reader)}
    /\ live' = live \cup {CycleCtx(reader)}
    /\ UNCHANGED <<locks, readers, views, names, pipelines, cells, insts, saccs,
                   phase, ncollect, out, handled, panicked, clock, nupdates>>

\* The function returns, and Run with it.
CycleReturn(t) ==
    /\ t \in Running("Cycle", "callback")
    /\ threads' = [threads EXCEPT ![t].at = "ran"]
    /\ live' = IF \E u \in Running("Cycle", "callback") :
                     u # t /\ threads[u].reader = threads[t].reader
               THEN live ELSE live \ {CycleCtx(threads[t].reader)}
    /\ UNCHANGED <<locks, readers, views, names, pipelines, cells, insts, saccs,
                   ctxs, phase, ncollect, out, handled, panicked, clock,
                   nupdates>>

\* Instrument.AccumulateFor(reader) on every asynchronous instrument.
CycleAccumulateFor(t) ==
    /\ t \in Running("Cycle", "ran")
    /\ LET reader == threads[t].reader IN
       /\ insts' = [i \in DOMAIN insts |->
                       IF i \in AsyncIds
                       THEN [insts[i] EXCEPT !.state[reader] = EmptyMap]
                       ELSE insts[i]]
       /\ \E s \in AccumulateStore([cl |-> cells, now |-> clock], reader,
                       StoreEntries(reader)) :
            /\ cells' = Sweep(s.cl, pipelines, saccs, insts')
            /\ clock' = s.now
    /\ threads' = [threads EXCEPT ![t].at = "flushed"]
    /\ UNCHANGED <<locks, readers, views, names, pipelines, saccs, ctxs, live,
                   phase, ncollect, out, handled, panicked, nupdates>>

\* Collect(reader, sequence, &output) on every instrument.
CycleCollect(t) ==
    /\ t \in Running("Cycle", "flushed")
    /\ LET reader == threads[t].reader
           s == CollectAll([pl |-> pipelines, cl |-> cells, out |-> <<>>],
                           1, reader, Sequence(reader))
       IN  /\ pipelines' = s.pl
           /\ cells' = Sweep(s.cl, s.pl, saccs, insts)
           /\ out' = [reader |-> reader, insts |-> s.out]
           /\ ncollect' = [ncollect EXCEPT ![reader] = @ + 1]
    /\ threads' = MapDelete(threads, t)
    /\ UNCHANGED <<locks, readers, views, names, insts, saccs, ctxs, live,
                   phase, handled, panicked, clock, nupdates>>

InitOverlap == InitWith(<<CumulativeReader>>, <<>>)

CompileOverlap == insts = <<>> /\ Compile(QueueCounter)

CycleRunOverlap == \E reader \in ReaderIds : CycleRun(reader)

ObserveOverlap ==
    \E i \in AsyncIds, ctx \in live, kvs \in KvsInputs : Observe(i, ctx, 1, kvs)

CycleReturnOverlap == \E t \in DOMAIN threads : CycleReturn(t)

CycleAccumulateForOverlap == \E t \in DOMAIN threads : CycleAccumulateFor(t)

CycleCollectOverlap == \E t \in DOMAIN threads : CycleCollect(t)

NextOverlap ==
    \/ CompileOverlap
    \/ CycleRunOverlap
    \/ ObserveOverlap
    \/ CycleReturnOverlap
    \/ CycleAccumulateForOverlap
    \/ CycleCollectOverlap

SpecOverlap == InitOverlap /\ [][NextOverlap]_vars

----------------------------------------------------------------------------
(* C18: overlapping collection cycles. *)

\* The cells in the data maps of the reader's pipelines.
CellsInMaps(reader) ==
    UNION {Range(pipelines[p].data) :
              p \in {q \in DOMAIN pipelines : pipelines[q].reader = reader}}

\* The cells that the accumulators in the reader's stores point at.
CellsOfStores(reader) ==
    {insts[i].state[reader][e[1]][e[2]].output :
        <<i, e>> \in UNION {{<<i, e>> : e \in StoreLeaves(i, reader)} :
                               i \in AsyncIds}}

\* C18: whatever the interleaving of the cycles of one reader,
\* AccumulateFor flushes every accumulator into a cell that is in the
\* pipeline's data map, where the next Collect finds it, and Collect emits
\* no cell whose accumulator is still waiting to be flushed.
C18_OverlappingCycles ==
    [][\A t \in DOMAIN threads :
        /\ CycleAccumulateFor(t)
           => CellsOfStores(threads[t].reader) \subseteq CellsInMaps(threads[t].reader)
        /\ CycleCollect(t)
           => CellsOfStores(threads[t].reader) \cap CellsInMaps(threads[t].reader)
                 = {}]_vars

----------------------------------------------------------------------------
(* The locks of the asynchronous path, step by step.  A collection cycle   *)
(* is a thread with op "Run": Callback.Run calls the function, whose       *)
(* Observe calls run on that thread; then AccumulateFor on every           *)
(* asynchronous instrument, then Collect on every instrument.  Compile is  *)
(* a thread of its own.  Lock() and the section it opens are separate      *)
(* steps, so that a mutex is seen held.  An accumulator's leaves are taken *)
(* together under one accumulator lock.                                    *)

NamesLock == <<"Compiler.namesLock">>

ReaderStateLock(i, reader) == <<"readerState.lock", i, reader>>

AccumulatorLock(i, reader, aset) == <<"asyncAccumulator.lock", i, reader, aset>>

Held(t) == {l \in DOMAIN locks : locks[l] = t}

\* The cells that the accumulators being made by get point at.
ThreadCells ==
    UNION {{threads[t].leaves[l].output : l \in DOMAIN threads[t].leaves} :
              t \in {u \in DOMAIN threads : threads[u].op = "Run"}}

SweepRunning(cl, pl) ==
    [c \in DOMAIN cl \cap (Reachable(pl, saccs, insts) \cup ThreadCells) |-> cl[c]]

\* Callback.Run calls the function with the context it made: no lock is
\* taken.
RunCall(reader) ==
    /\ CanStart
    /\ reader \in ReaderIds
    /\ AsyncIds # {}
    /\ ncollect[reader]
          + Cardinality({t \in DOMAIN threads :
                           threads[t].op = "Run" /\ threads[t].reader = reader})
          < MaxCollects
    /\ threads' = MapPut(threads, NewThread,
                    [op |-> "Run", at |-> "function", reader |-> reader,
                     ctx |-> CycleCtx(reader), i |-> 0, aset |-> {}, kvs |-> <<>>,
                     value |-> 0, pids |-> <<>>, leaves |-> <<>>,
                     discarded |-> FALSE, left |-> <<>>, todo |-> {},
                     output |-> <<>>])
    /\ ctxs' = ctxs \cup {CycleCtx(reader)}
    /\ live' = live \cup {CycleCtx(reader)}
    /\ UNCHANGED <<locks, readers, views, names, pipelines, cells, insts, saccs,
                   phase, ncollect, out, handled, panicked, clock, nupdates>>

\* The function calls Observe: the tests of the scope, of the declared set
\* and of the range, up to the call of get.
ObserveCall(t, i, value, kvs) ==
    /\ t \in Running("Run", "function")
    /\ i \in AsyncIds
    /\ nupdates < MaxUpdates
    /\ nupdates' = nupdates + 1
    /\ LET ctx == threads[t].ctx
           reported == IF i \notin ctx.cb
                       THEN handled \cup {ErrUndeclared} ELSE handled
       IN  IF RangeTestFails(value, insts[i].desc)
           THEN /\ handled' = reported \cup {ErrRange}
                /\ UNCHANGED threads
           ELSE /\ handled' = reported
                /\ threads' = [threads EXCEPT
                                 ![t].at = "get", ![t].i = i, ![t].kvs = kvs,
                                 ![t].aset = NewSet(kvs), ![t].value = value,
                                 ![t].leaves = <<>>, ![t].discarded = FALSE]
    /\ UNCHANGED <<locks, readers, views, names, pipelines, cells, insts, saccs,
                   ctxs, live, phase, ncollect, out, panicked, clock>>

\* get: rs.lock.Lock()
GetLock(t) ==
    /\ t \in Running("Run", "get")
    /\ Free(ReaderStateLock(threads[t].i, threads[t].reader))
    /\ locks' = MapPut(locks, ReaderStateLock(threads[t].i, threads[t].reader), t)
    /\ threads' = [threads EXCEPT ![t].at = "lookup"]
    /\ UNCHANGED <<readers, views, names, pipelines, cells, insts, saccs, ctxs,
                   live, phase, ncollect, out, handled, panicked, clock,
                   nupdates>>

\* get: the lookup in rs.store.  An accumulator that is there is returned
\* and the lock released; else inst.compiled.NewAccumulator is called, which
\* panics on a nil compiled instrument: the deferred unlock runs and the
\* operation ends.
GetLookup(t) ==
    /\ t \in Running("Run", "lookup")
    /\ LET i == threads[t].i
           reader == threads[t].reader
       IN  IF threads[t].aset \in DOMAIN insts[i].state[reader]
           THEN /\ locks' = MapDelete(locks, ReaderStateLock(i, reader))
                /\ threads' = [threads EXCEPT ![t].at = "update"]
                /\ UNCHANGED panicked
           ELSE IF insts[i].compiled.tag = "nil"
           THEN /\ panicked' = TRUE
                /\ locks' = MapDelete(locks, ReaderStateLock(i, reader))
                /\ threads' = MapDelete(threads, t)
           ELSE /\ threads' = [threads EXCEPT
                                 ![t].at = "findOutput",
                                 ![t].pids =
                                    AccumulatorPipes(insts[i].compiled, reader)]
                /\ UNCHANGED <<locks, panicked>>
    /\ UNCHANGED <<readers, views, names, pipelines, cells, insts, saccs, ctxs,
                   live, phase, ncollect, out, handled, clock, nupdates>>

\* findOutput: metric.lock.Lock(), with the reader-state lock held.
FindOutputLock(t) ==
    /\ t \in Running("Run", "findOutput")
    /\ threads[t].pids # <<>>
    /\ Free(PipelineLock(Head(threads[t].pids)))
    /\ locks' = MapPut(locks, PipelineLock(Head(threads[t].pids)), t)
    /\ threads' = [threads EXCEPT ![t].at = "insert"]
    /\ UNCHANGED <<readers, views, names, pipelines, cells, insts, saccs, ctxs,
                   live, phase, ncollect, out, handled, panicked, clock,
                   nupdates>>

\* findOutput without its deferred m.lock.Unlock().
FindOutputInsertKeepingLock(t) ==
    /\ t \in Running("Run", "insert")
    /\ LET p == Head(threads[t].pids)
           h == findOutput([pl |-> pipelines, cl |-> cells], p, threads[t].kvs)
       IN  /\ pipelines' = h.pl
           /\ cells' = h.cl
           /\ threads' = [threads EXCEPT
                            ![t].at = "findOutput",
                            ![t].pids = Tail(@),
                            ![t].leaves =
                                Append(@, NewLeaf(h, p, threads[t].kvs))]
    /\ UNCHANGED <<locks, readers, views, names, insts, saccs, ctxs, live,
                   phase, ncollect, out, handled, panicked, clock, nupdates>>

\* findOutput: the lookup or insert in metric.data, and the unlock.
FindOutputInsert(t) ==
    /\ t \in Running("Run", "insert")
    /\ LET p == Head(threads[t].pids)
           h == findOutput([pl |-> pipelines, cl |-> cells], p, threads[t].kvs)
       IN  /\ pipelines' = h.pl
           /\ cells' = h.cl
           /\ locks' = MapDelete(locks, PipelineLock(p))
           /\ threads' = [threads EXCEPT
                            ![t].at = "findOutput",
                            ![t].pids = Tail(@),
                            ![t].leaves =
                                Append(@, NewLeaf(h, p, threads[t].kvs))]
    /\ UNCHANGED <<readers, views, names, insts, saccs, ctxs, live, phase,
                   ncollect, out, handled, panicked, clock, nupdates>>

\* get: rs.store[aset] = se, and the deferred rs.lock.Unlock().
GetStore(t) ==
    /\ t \in Running("Run", "findOutput")
    /\ threads[t].pids = <<>>
    /\ LET i == threads[t].i
           reader == threads[t].reader
       IN  /\ insts' = [insts EXCEPT ![i].state[reader] =
                          MapPut(@, threads[t].aset, threads[t].leaves)]
           /\ locks' = MapDelete(locks, ReaderStateLock(i, reader))
    /\ threads' = [threads EXCEPT ![t].at = "update", ![t].leaves = <<>>]
    /\ UNCHANGED <<readers, views, names, pipelines, cells, saccs, ctxs, live,
                   phase, ncollect, out, handled, panicked, clock, nupdates>>

\* asyncAccumulator.Update: ac.lock.Lock()
UpdateLock(t) ==
    /\ t \in Running("Run", "update")
    /\ Free(AccumulatorLock(threads[t].i, threads[t].reader, threads[t].aset))
    /\ locks' = MapPut(locks,
                    AccumulatorLock(threads[t].i, threads[t].reader,
                                    threads[t].aset), t)
    /\ threads' = [threads EXCEPT ![t].at = "assign"]
    /\ UNCHANGED <<readers, views, names, pipelines, cells, insts, saccs, ctxs,
                   live, phase, ncollect, out, handled, panicked, clock,
                   nupdates>>

\* asyncAccumulator.Update: ac.current = number, and the unlock.  An
\* accumulator that AccumulateFor has dropped from the store meanwhile is
\* written all the same, and read by nobody.
UpdateAssign(t) ==
    /\ t \in Running("Run", "assign")
    /\ LET i == threads[t].i
           reader == threads[t].reader
           aset == threads[t].aset
       IN  /\ insts' = IF threads[t].discarded
                          \/ aset \notin DOMAIN insts[i].state[reader]
                       THEN insts
                       ELSE [insts EXCEPT ![i].state[reader][aset] =
                               [l \in DOMAIN @ |->
                                   AsyncLeafUpdate(@[l], threads[t].value)]]
           /\ locks' = MapDelete(locks, AccumulatorLock(i, reader, aset))
    /\ threads' = [threads EXCEPT ![t].at = "function"]
    /\ UNCHANGED <<readers, views, names, pipelines, cells, saccs, ctxs, live,
                   phase, ncollect, out, handled, panicked, clock, nupdates>>

\* The function returns, and Run with it; AccumulateFor is due on every
\* asynchronous instrument.
RunEnd(t) ==
    /\ t \in Running("Run", "function")
    /\ threads' = [threads EXCEPT ![t].at = "ran",
                                  ![t].left = SetToSeq(AsyncIds)]
    /\ live' = IF \E u \in DOMAIN threads :
                     /\ u # t
                     /\ threads[u].op = "Run"
                     /\ threads[u].reader = threads[t].reader
                     /\ threads[u].at \in {"function", "get", "lookup",
                            "findOutput", "insert", "update", "assign"}
               THEN live ELSE live \ {threads[t].ctx}
    /\ UNCHANGED <<locks, readers, views, names, pipelines, cells, insts, saccs,
                   ctxs, phase, ncollect, out, handled, panicked, clock,
                   nupdates>>


\* AccumulateFor on the next instrument: rs.lock.Lock()
AccumulateForLock(t) ==
    /\ t \in Running("Run", "ran")
    /\ threads[t].left # <<>>
    /\ LET i == Head(threads[t].left)
           reader == threads[t].reader
       IN  /\ Free(ReaderStateLock(i, reader))
           /\ locks' = MapPut(locks, ReaderStateLock(i, reader), t)
           /\ threads' = [threads EXCEPT
                            ![t].at = "flush", ![t].i = i,
                            ![t].todo = DOMAIN insts[i].state[reader]]
    /\ UNCHANGED <<readers, views, names, pipelines, cells, insts, saccs, ctxs,
                   live, phase, ncollect, out, handled, panicked, clock,
                   nupdates>>

\* The range over rs.store: capt.Accumulate() takes ac.lock.Lock(), with
\* the reader-state lock held.
AccumulateLock(t) ==
    /\ t \in Running("Run", "flush")
    /\ \E aset \in threads[t].todo :
         /\ Free(AccumulatorLock(threads[t].i, threads[t].reader, aset))
         /\ locks' = MapPut(locks,
                        AccumulatorLock(threads[t].i, threads[t].reader, aset), t)
         /\ threads' = [threads EXCEPT ![t].at = "accumulate", ![t].aset = aset]
    /\ UNCHANGED <<readers, views, names, pipelines, cells, insts, saccs, ctxs,
                   live, phase, ncollect, out, handled, panicked, clock,
                   nupdates>>

\* asyncAccumulator.Accumulate: Reset, Update and Merge into the output
\* cell (no pipeline lock is taken), and the unlock.
AccumulateUnlock(t) ==
    /\ t \in Running("Run", "accumulate")
    /\ LET i == threads[t].i
           reader == threads[t].reader
           aset == threads[t].aset
           s == AsyncAccumulate([cl |-> cells, now |-> clock],
                                insts[i].state[reader][aset])
       IN  /\ cells' = s.cl
           /\ clock' = s.now
           /\ locks' = MapDelete(locks, AccumulatorLock(i, reader, aset))
    /\ threads' = [threads EXCEPT ![t].at = "flush", ![t].todo = @ \ {threads[t].aset}]
    /\ UNCHANGED <<readers, views, names, pipelines, insts, saccs, ctxs, live,
                   phase, ncollect, out, handled, panicked, nupdates>>

\* The range is over: rs.store is replaced by a new map and the deferred
\* rs.lock.Unlock() runs.  The accumulators that an Observe got from the
\* old map and has not updated yet are in no store any more.
AccumulateForUnlock(t) ==
    /\ t \in Running("Run", "flush")
    /\ threads[t].todo = {}
    /\ LET i == threads[t].i
           reader == threads[t].reader
           rest == Tail(threads[t].left)
       IN  /\ insts' = [insts EXCEPT ![i].state[reader] = EmptyMap]
           /\ locks' = MapDelete(locks, ReaderStateLock(i, reader))
           /\ threads' = [u \in DOMAIN threads |->
                IF u = t
                THEN [threads[t] EXCEPT
                        !.left = rest,
                        !.at = IF rest = <<>> THEN "flushed" ELSE "ran",
                        !.pids = IF rest = <<>> THEN AllCollectPipes(1, reader)
                                 ELSE <<>>]
                ELSE IF /\ threads[u].op = "Run"
                        /\ threads[u].at \in {"update", "assign"}
                        /\ threads[u].i = i
                        /\ threads[u].reader = reader
                THEN [threads[u] EXCEPT !.discarded = TRUE]
                ELSE threads[u]]
    /\ UNCHANGED <<readers, views, names, pipelines, cells, saccs, ctxs, live,
                   phase, ncollect, out, handled, panicked, clock, nupdates>>

\* Collect of the next pipeline: p.lock.Lock()
PipelineCollectLock(t) ==
    /\ t \in Running("Run", "flushed")
    /\ threads[t].pids # <<>>
    /\ Free(PipelineLock(Head(threads[t].pids)))
    /\ locks' = MapPut(locks, PipelineLock(Head(threads[t].pids)), t)
    /\ threads' = [threads EXCEPT ![t].at = "collect"]
    /\ UNCHANGED <<readers, views, names, pipelines, cells, insts, saccs, ctxs,
                   live, phase, ncollect, out, handled, panicked, clock,
                   nupdates>>

\* The pipeline's Collect under its lock, and the deferred unlock.
PipelineCollectUnlock(t) ==
    /\ t \in Running("Run", "collect")
    /\ LET p == Head(threads[t].pids)
           s == PipelineCollect([pl |-> pipelines, cl |-> cells,
                                 out |-> threads[t].output],
                                p, Sequence(threads[t].reader))
       IN  /\ pipelines' = s.pl
           /\ cells' = s.cl
           /\ locks' = MapDelete(locks, PipelineLock(p))
           /\ threads' = [threads EXCEPT ![t].at = "flushed",
                                         ![t].pids = Tail(@),
                                         ![t].output = s.out]
    /\ UNCHANGED <<readers, views, names, insts, saccs, ctxs, live, phase,
                   ncollect, out, handled, panicked, clock, nupdates>>

\* Every pipeline was collected: the output goes to the reader.
RunCollected(t) ==
    /\ t \in Running("Run", "flushed")
    /\ threads[t].pids = <<>>
    /\ out' = [reader |-> threads[t].reader, insts |-> threads[t].output]
    /\ ncollect' = [ncollect EXCEPT ![threads[t].reader] = @ + 1]
    /\ cells' = SweepRunning(cells, pipelines)
    /\ threads' = MapDelete(threads, t)
    /\ UNCHANGED <<locks, readers, views, names, pipelines, insts, saccs, ctxs,
                   live, phase, handled, panicked, clock, nupdates>>

\* Compile is entered: the behaviours are configured without a lock, then
\* v.namesLock.Lock().
CompileLock(instrument) ==
    /\ CanStart
    /\ Len(insts) + Cardinality({t \in DOMAIN threads : threads[t].op = "Compile"})
          < MaxInsts
    /\ Free(NamesLock)
    /\ locks' = MapPut(locks, NamesLock, NewThread)
    /\ threads' = MapPut(threads, NewThread,
                    [op |-> "Compile", at |-> "names", instrument |-> instrument])
    /\ UNCHANGED <<readers, views, names, pipelines, cells, insts, saccs, ctxs,
                   live, phase, ncollect, out, handled, panicked, clock,
                   nupdates>>

\* The loop over the behaviours under the names lock, the deferred unlock,
\* and NewInstrument on the result.
CompileUnlock(t) ==
    /\ t \in Running("Compile", "names")
    /\ LET instrument == threads[t].instrument
           built == BuiltFrom(instrument, 1)
           compiled == CompiledMap(built, Len(pipelines))
       IN  /\ pipelines' = pipelines \o built
           /\ names' = [r \in ReaderIds |->
                          names[r] \cup
                          {c.desc.name : c \in Range(ConfigsFor(instrument, r))}]
           /\ handled' = IF \E r \in ReaderIds :
                               Len(Accepted(ConfigsFor(instrument, r), names[r]))
                                  < Len(ConfigsFor(instrument, r))
                         THEN handled \cup {ErrDuplicate} ELSE handled
           /\ insts' = Append(insts, NewInstrument(instrument, Wrap(compiled)))
    /\ locks' = MapDelete(locks, NamesLock)
    /\ threads' = MapDelete(threads, t)
    /\ UNCHANGED <<readers, views, cells, saccs, ctxs, live, phase, ncollect,
                   out, panicked, clock, nupdates>>

----------------------------------------------------------------------------
(* Concurrent use of the asynchronous path: the CounterObserver and the    *)
(* GaugeObserver, each compiled once, read by a cumulative reader, with    *)
(* collection cycles and Compile calls running as threads.                 *)

InitLocks == InitWith(<<CumulativeReader>>, <<>>)

\* The CounterObserver is compiled first, the GaugeObserver second.
CompileLockLocks ==
    /\ Len(insts) < Len(<<QueueCounter, TempGauge>>)
    /\ CompileLock(<<QueueCounter, TempGauge>>[Len(insts) + 1])

CompileUnlockLocks == \E t \in DOMAIN threads : CompileUnlock(t)

\* MaxThreads collection cycles are started in all.
RunCallLocks ==
    \E reader \in ReaderIds :
        /\ ncollect[reader] + Cardinality(DOMAIN threads) < MaxThreads
        /\ RunCall(reader)

ObserveCallLocks ==
    \E t \in DOMAIN threads, i \in AsyncIds : ObserveCall(t, i, 1, KvsA)

GetLockLocks == \E t \in DOMAIN threads : GetLock(t)

GetLookupLocks == \E t \in DOMAIN threads : GetLookup(t)

FindOutputLockLocks == \E t \in DOMAIN threads : FindOutputLock(t)

FindOutputInsertLocks == \E t \in DOMAIN threads : FindOutputInsert(t)

GetStoreLocks == \E t \in DOMAIN threads : GetStore(t)

UpdateLockLocks == \E t \in DOMAIN threads : UpdateLock(t)

UpdateAssignLocks == \E t \in DOMAIN threads : UpdateAssign(t)

RunEndLocks == \E t \in DOMAIN threads : RunEnd(t)

AccumulateForLockLocks == \E t \in DOMAIN threads : AccumulateForLock(t)

AccumulateLockLocks == \E t \in DOMAIN threads : AccumulateLock(t)

AccumulateUnlockLocks == \E t \in DOMAIN threads : AccumulateUnlock(t)

AccumulateForUnlockLocks == \E t \in DOMAIN threads : AccumulateForUnlock(t)

PipelineCollectLockLocks == \E t \in DOMAIN threads : PipelineCollectLock(t)

PipelineCollectUnlockLocks == \E t \in DOMAIN threads : PipelineCollectUnlock(t)

RunCollectedLocks == \E t \in DOMAIN threads : RunCollected(t)

NextLocks ==
    \/ CompileLockLocks
    \/ CompileUnlockLocks
    \/ RunCallLocks
    \/ ObserveCallLocks
    \/ GetLockLocks
    \/ GetLookupLocks
    \/ FindOutputLockLocks
    \/ FindOutputInsertLocks
    \/ GetStoreLocks
    \/ UpdateLockLocks
    \/ UpdateAssignLocks
    \/ RunEndLocks
    \/ AccumulateForLockLocks
    \/ AccumulateLockLocks
    \/ AccumulateUnlockLocks
    \/ AccumulateForUnlockLocks
    \/ PipelineCollectLockLocks
    \/ PipelineCollectUnlockLocks
    \/ RunCollectedLocks

SpecLocks == InitLocks /\ [][NextLocks]_vars


----------------------------------------------------------------------------
(* The locks held while the callback function executes.                    *)

\* The positions of a collection cycle inside the callback function of
\* Callback.Run, Observe calls included.
InCallback ==
    {"function", "get", "lookup", "findOutput", "insert", "update", "assign"}

\* The positions of a collection cycle inside AccumulateFor.
InAccumulateFor == {"flush", "accumulate"}

\* C19: while the callback function of Callback.Run(reader) executes, the
\* reader-state lock of that reader is held for every asynchronous
\* instrument, so no AccumulateFor of the reader runs during the callback
\* and at most one callback of the reader is in progress.
C19_RunUnderReaderLock ==
    \A t \in DOMAIN threads :
        (threads[t].op = "Run" /\ threads[t].at \in InCallback)
        => /\ \A i \in AsyncIds :
                ~Free(ReaderStateLock(i, threads[t].reader))
           /\ \A u \in DOMAIN threads \ {t} :
                (threads[u].op = "Run" /\ threads[u].reader = threads[t].reader)
                => threads[u].at \notin InCallback \cup InAccumulateFor


----------------------------------------------------------------------------
(* The order in which the locks are taken.                                 *)

\* A step of a started operation; the scheduler runs every thread that can
\* take one.
ThreadStepLocks ==
    \/ CompileUnlockLocks
    \/ ObserveCallLocks
    \/ GetLockLocks
    \/ GetLookupLocks
    \/ FindOutputLockLocks
    \/ FindOutputInsertLocks
    \/ GetStoreLocks
    \/ UpdateLockLocks
    \/ UpdateAssignLocks
    \/ RunEndLocks
    \/ AccumulateForLockLocks
    \/ AccumulateLockLocks
    \/ AccumulateUnlockLocks
    \/ AccumulateForUnlockLocks
    \/ PipelineCollectLockLocks
    \/ PipelineCollectUnlockLocks
    \/ RunCollectedLocks

SpecLocksFair == SpecLocks /\ WF_vars(ThreadStepLocks)

\* The locks of which thread t is about to take one.
Wanted(t) ==
    LET s == threads[t]
    IN  IF s.op # "Run" THEN {}
        ELSE IF s.at = "get" THEN {ReaderStateLock(s.i, s.reader)}
        ELSE IF s.at = "ran" /\ s.left # <<>>
             THEN {ReaderStateLock(Head(s.left), s.reader)}
        ELSE IF s.at \in {"findOutput", "flushed"} /\ s.pids # <<>>
             THEN {PipelineLock(Head(s.pids))}
        ELSE IF s.at = "update" THEN {AccumulatorLock(s.i, s.reader, s.aset)}
        ELSE IF s.at = "flush"
             THEN {AccumulatorLock(s.i, s.reader, aset) : aset \in s.todo}
        ELSE {}

Blocked(t) == Wanted(t) # {} /\ \A l \in Wanted(t) : ~Free(l)

\* The reader-state lock is the outer lock; the names lock, the pipeline
\* lock and the accumulator lock are taken last.
Rank(l) == IF l[1] = "readerState.lock" THEN 1 ELSE 2

LockOrder ==
    \A t \in DOMAIN threads :
        /\ \A h \in Held(t), l \in Wanted(t) : Rank(h) < Rank(l)
        /\ \A h1, h2 \in Held(t) : Rank(h1) = Rank(h2) => h1 = h2

\* No set of threads in which every thread waits for a lock that a thread
\* of the set holds.
NoWaitCycle ==
    \A S \in SUBSET DOMAIN threads :
        S # {} => \E t \in S :
                    \/ ~Blocked(t)
                    \/ \E l \in Wanted(t) : locks[l] \notin S

\* C20: the names lock, the reader-state lock, the accumulator lock and the
\* pipeline lock are never taken in opposing orders by Compile, Observe,
\* AccumulateFor and Collect running concurrently: every held lock belongs
\* to a running operation, no thread waits for a lock of a lower or equal
\* rank than one it holds, no deadlock state is reached, and every started
\* operation finishes.
C20_LockOrder ==
    /\ [](\A l \in DOMAIN locks : locks[l] \in DOMAIN threads)
    /\ []LockOrder
    /\ []NoWaitCycle
    /\ [](threads # EmptyMap => ENABLED ThreadStepLocks)
    /\ <>[](threads = EmptyMap)

\* A thread inside get holds the reader-state lock and waits for the
\* pipeline lock that a Collect of another thread holds.
C20_Witness ==
    \E t \in DOMAIN threads :
        /\ threads[t].op = "Run" /\ threads[t].at = "findOutput"
        /\ Held(t) = {ReaderStateLock(threads[t].i, threads[t].reader)}
        /\ Blocked(t)
        /\ \E u \in DOMAIN threads \ {t} :
             /\ threads[u].at = "collect"
             /\ Wanted(t) \subseteq Held(u)


----------------------------------------------------------------------------
(* The prior map of the cumulative-to-delta pipeline.                      *)

\* C21: a Collect of a statefulAsyncProcess leaves in prior exactly the
\* data map it found, every cell of it with the storage it had when the
\* Collect started (the cumulative value that AccumulateFor flushed; the
\* subtraction writes into the cells of the old prior only), and leaves
\* data empty; with an empty data map prior is left empty.
C21_PriorIsCollectedMap ==
    [][\A reader \in ReaderIds, p \in DOMAIN pipelines :
        (CollectStep(reader) /\ Collected(p) /\ IsProc(p, "statefulAsync"))
        => LET data == pipelines[p].data IN
           /\ pipelines'[p].prior = data
           /\ pipelines'[p].data = EmptyMap
           /\ \A set \in DOMAIN data :
                /\ data[set] \in DOMAIN cells'
                /\ cells'[data[set]].st = cells[data[set]].st
                /\ cells'[data[set]].st.v = cells[data[set]].flushed
           /\ (data = EmptyMap => pipelines'[p].prior = EmptyMap)]_vars

\* The second Collect of a Sum pipeline has emitted a difference that is
\* not the cumulative value, and prior holds the cumulative value.
C21_Witness ==
    \E p \in DOMAIN pipelines :
        /\ IsProc(p, "statefulAsync")
        /\ pipelines[p].agg = SumKind
        /\ ncollect[pipelines[p].reader] = 2
        /\ phase[pipelines[p].reader] = "idle"
        /\ out.reader = pipelines[p].reader
        /\ pipelines[p].data = EmptyMap
        /\ \E k \in DOMAIN out.insts, set \in DOMAIN pipelines[p].prior :
             /\ out.insts[k].pipe = p
             /\ set \in DOMAIN out.insts[k].series
             /\ cells[pipelines[p].prior[set]].st.v = 2
             /\ out.insts[k].series[set].value.v = 1


----------------------------------------------------------------------------
(* Views and reader defaults in Compile: compilers with one or two         *)
(* readers, one of which may drop every instrument by default, and with no *)
(* view, views that match the Counter, a view that matches no instrument,  *)
(* or a view that matches the Counter and the CounterObserver.             *)

DefaultReaders ==
    {<<DeltaReader, DropReader>>, <<DropReader, CumulativeReader>>,
     <<CumulativeReader>>}

DefaultViews ==
    {<<>>,
     <<View({"requests"}, LastValueKind, TRUE, "last", KeyFilter({"k"})),
       View({"requests"}, UndefinedKind, FALSE, "", NoFilter)>>,
     <<View({"other"}, SumKind, TRUE, "renamed", NoFilter)>>,
     <<View({"requests", "queue"}, UndefinedKind, TRUE, "renamed", NoFilter)>>}

InitDefault == \E rs \in DefaultReaders, vs \in DefaultViews : InitWith(rs, vs)

CompileDefault == \E d \in {RequestsCounter, QueueCounter, TempGauge} : Compile(d)

NextDefault == CompileDefault

SpecDefault == InitDefault /\ [][NextDefault]_vars

\* The new pipelines of reader r, in the order built, as the behaviour each
\* was built from.
BuiltFor(r) ==
    LET ids == SetToSeq({p \in NewPipelines : pipelines'[p].reader = r})
        sorted == [k \in DOMAIN ids |->
                     CHOOSE p \in Range(ids) :
                        Cardinality({q \in Range(ids) : q < p}) = k - 1]
    IN  [k \in DOMAIN sorted |->
            [desc |-> pipelines'[sorted[k]].desc,
             keys |-> pipelines'[sorted[k]].keys,
             agg |-> pipelines'[sorted[k]].agg]]

\* The behaviours the views and the defaults of reader r give descriptor d:
\* with no matching view, one with the descriptor unchanged, no filter and
\* the default aggregation unless that is Drop; else one per matching view
\* whose aggregation is not Drop, in view order.
ExpectedFor(d, r) ==
    LET m == SelectSeq(views, LAMBDA view : d.name \in view.matches)
        default == readers[r][d.ikind].agg
        kindOf(view) == IF view.agg \in {SumKind, LastValueKind}
                        THEN view.agg ELSE default
        kept == SelectSeq(m, LAMBDA view : kindOf(view) # DropKind)
    IN  IF m = <<>>
        THEN IF default = DropKind THEN <<>>
             ELSE <<[desc |-> d, keys |-> NoFilter, agg |-> default]>>
        ELSE [k \in DOMAIN kept |->
                [desc |-> [d EXCEPT !.name = IF kept[k].hasName
                                             THEN kept[k].name ELSE @],
                 keys |-> kept[k].keys,
                 agg |-> kindOf(kept[k])]]

\* C23: in a Compile step, for each reader: when no view matches, one
\* behaviour from the unchanged descriptor and the reader's default
\* aggregation, and none when that default is Drop; when views match, the
\* behaviours of the matching views that do not drop, in view order, and
\* no default behaviour.  Stated on the pipelines built, for names the
\* reader has not emitted yet.
C23_DefaultFallback ==
    [][Len(insts') = Len(insts) + 1
       => LET d == insts'[Len(insts')].desc IN
          \A r \in ReaderIds :
            LET expected == ExpectedFor(d, r) IN
            (/\ \A k \in DOMAIN expected : expected[k].desc.name \notin names[r]
             /\ \A k, l \in DOMAIN expected :
                  expected[k].desc.name = expected[l].desc.name => k = l)
            => BuiltFor(r) = expected]_vars

\* The Counter got the two pipelines of its two views and no default one;
\* the CounterObserver, which no view matches, got the default pipeline
\* from the reader that keeps it and none from the reader that drops it.
C23_Witness ==
    /\ Len(readers) = 2
    /\ Len(views) = 2
    /\ Len(insts) = 2
    /\ insts[1].desc = RequestsCounter
    /\ insts[2].desc = QueueCounter
    /\ \E r \in ReaderIds :
         /\ readers[r] = DropReader
         /\ {pipelines[p].desc.name :
               p \in {q \in DOMAIN pipelines : pipelines[q].reader = r}}
              = {"last"}
    /\ \E r \in ReaderIds :
         /\ readers[r] # DropReader
         /\ {pipelines[p].desc.name :
               p \in {q \in DOMAIN pipelines : pipelines[q].reader = r}}
              = {"last", "requests", "queue"}
         /\ \E p \in DOMAIN pipelines :
              /\ pipelines[p].reader = r
              /\ pipelines[p].desc = QueueCounter
              /\ pipelines[p].keys = NoFilter


----------------------------------------------------------------------------
(* C22: the accumulators of a multiInstrument. *)

\* The pipelines of a multiInstrument, of every reader.
PipesOf(compiled) == UNION {Range(compiled.mi[r]) : r \in DOMAIN compiled.mi}

\* C22: for a multiInstrument, NewAccumulator with a nil reader returns one
\* child per pipeline of every reader; Update and Accumulate on it act once
\* on every child, and what Accumulate hands over reaches a cell of the
\* data map of the child's pipeline, so that every reader's pipeline gets
\* every measurement once; NewAccumulator with a reader, as Observe calls
\* it, builds children for the pipelines of that reader only and leaves
\* the pipelines and cells of the other readers alone.
C22_MultiReaderFanOut ==
    /\ [][\A i \in SyncIds :
            (insts[i].compiled.tag = "multi" /\ NewAccumulator(i, KvsA))
            => LET children == saccs'[Len(saccs')] IN
               /\ Len(children) = Cardinality(PipesOf(insts[i].compiled))
               /\ {children[l].output[1] : l \in DOMAIN children}
                     = PipesOf(insts[i].compiled)]_vars
    /\ [][\A a \in DOMAIN saccs :
            (Len(saccs[a]) > 1 /\ Update(a, 1))
            => \A l \in DOMAIN saccs[a] :
                 saccs'[a][l].current.v = saccs[a][l].current.v + 1]_vars
    /\ [][\A a \in DOMAIN saccs :
            (Len(saccs[a]) > 1 /\ Accumulate(a))
            => \A l \in DOMAIN saccs[a] :
                 LET leaf == saccs[a][l]
                     p == leaf.output[1]
                 IN  /\ cells'[leaf.output].flushed
                          = cells[leaf.output].flushed + leaf.current.v
                     /\ saccs'[a][l].current = InitStorage
                     /\ leaf.current.v # 0
                        => /\ leaf.output[2] \in DOMAIN pipelines'[p].data
                           /\ pipelines'[p].data[leaf.output[2]] = leaf.output]_vars
    /\ [][\A i \in AsyncIds, ctx \in live :
            (/\ insts[i].compiled.tag = "multi"
             /\ NewSet(KvsA) \notin DOMAIN insts[i].state[ctx.reader]
             /\ Observe(i, ctx, 1, KvsA))
            => LET children == insts'[i].state[ctx.reader][NewSet(KvsA)] IN
               /\ {children[l].output[1] : l \in DOMAIN children}
                     = Range(insts[i].compiled.mi[ctx.reader])
               /\ Len(children) = Len(insts[i].compiled.mi[ctx.reader])
               /\ \A p \in DOMAIN pipelines :
                    pipelines[p].reader # ctx.reader
                    => /\ pipelines'[p] = pipelines[p]
                       /\ \A c \in DOMAIN cells :
                            c[1] = p => c \in DOMAIN cells' /\ cells'[c] = cells[c]]_vars


----------------------------------------------------------------------------
(* C24: the timestamps of the series. *)

\* C24: every series that the Collect of a synchronous pipeline appends
\* has Start = Last and End = Now of the Sequence passed to that Collect,
\* and every series of an asynchronous pipeline has Start = Start and
\* End = Now of it.
C24_SeriesTimestamps ==
    [][\A reader \in ReaderIds, p \in DOMAIN pipelines :
        (CollectStep(reader) /\ Collected(p))
        => \A set \in DOMAIN RecordOf(p).series :
             LET series == RecordOf(p).series[set]
                 seq == Sequence(reader)
             IN  /\ series.end = seq.Now
                 /\ series.start = IF Synchronous(pipelines[p].desc.ikind)
                                   THEN seq.Last ELSE seq.Start]_vars

\* The second Collect of a cumulative reader has emitted a series of the
\* Counter: it starts at the previous collection, not at the start.
C24_Witness ==
    \E k \in DOMAIN out.insts :
        LET p == out.insts[k].pipe IN
        /\ IsProc(p, "statefulSync")
        /\ pipelines[p].reader = out.reader
        /\ ncollect[out.reader] = 2
        /\ phase[out.reader] = "idle"
        /\ \E set \in DOMAIN out.insts[k].series :
             /\ out.insts[k].series[set].start = 1
             /\ out.insts[k].series[set].end = 2

====
